---------------------------- MODULE Spec2Model ----------------------------
(***************************************************************************)
(* Model of the search-and-fetch orchestration layer of src/main.py:       *)
(* the two expiring caches (cachetools.TTLCache), the hit/miss counters,   *)
(* the request semaphore, and the coroutines search_duckduckgo, fetch_url, *)
(* search, fetch and search_and_fetch with their administrative tools.     *)
(*                                                                         *)
(* Python strings are sequences of one-character strings, Python dicts are *)
(* functions on their keys, Python lists are sequences kept in a heap so   *)
(* that two references to one list see each other's in-place writes.       *)
(* One action is one run of a coroutine between two suspension points of   *)
(* the asyncio event loop; the clock does not advance inside such a run.   *)
(***************************************************************************)
EXTENDS Integers, Sequences, FiniteSets, TLC

VARIABLES
    now,                 \* the clock read by time.monotonic / datetime.now
    gate,                \* MAX_CONCURRENT_REQUESTS the process was started with
    CONFIG,              \* the mutable part of the CONFIG dict
    search_cache,        \* TTLCache of results lists (references into heap)
    url_cache,           \* TTLCache of fetch results
    search_cache_times,  \* dict cache_key -> datetime of the last store
    cache_stats,         \* {"hits", "misses"}
    request_semaphore,   \* free permits of the asyncio.Semaphore
    heap,                \* list objects: id -> sequence of result dicts
    task,                \* one record per tool call in progress
    ncalls,              \* tool calls issued so far
    returned,            \* history: what search last returned under a key
    used,                \* history: the keys of each cache, least recently
                         \* read or stored first
    ev                   \* history: what the last step did

vars == <<now, gate, CONFIG, search_cache, url_cache, search_cache_times,
          cache_stats, request_semaphore, heap, task, ncalls, returned, used,
          ev>>

----------------------------------------------------------------------------
(* Bounds of the model *)

MaxTime == 3
MaxCalls == 3
MaxGate == 2
MaxTasks == 2

\* the slots of the tool calls in progress: the first runs the calls that
\* search, the others the calls that fetch one URL
Tasks == 1..MaxTasks
Searchers == {t \in Tasks : t < 2}
Fetchers == Tasks \ Searchers

----------------------------------------------------------------------------
(* Configuration: the values load_config reads from the environment. The  *)
(* TTLs are set through CACHE_TTL_NEWS < CACHE_TTL < CACHE_TTL_DOCS, the   *)
(* order of the defaults 900 < 3600 < 86400, in clock ticks.               *)

CACHE_MAX_SIZE == 2
CACHE_TTL == 2
CACHE_TTL_NEWS == 1
CACHE_TTL_DOCS == 4
DEFAULT_REGION == <<"t", "w">>
DEFAULT_SAFE_SEARCH == TRUE
MAX_RESULTS == 10
CONTENT_LENGTH_LIMIT == 4

----------------------------------------------------------------------------
(* Strings *)

\* a character outside ASCII is written as its code point, "U+65B0"
UPPERCASE ==
    <<"A", "B", "C", "D", "E", "F", "G", "H", "I", "J", "K", "L", "M",
      "N", "O", "P", "Q", "R", "S", "T", "U", "V", "W", "X", "Y", "Z">>
LOWERCASE ==
    <<"a", "b", "c", "d", "e", "f", "g", "h", "i", "j", "k", "l", "m",
      "n", "o", "p", "q", "r", "s", "t", "u", "v", "w", "x", "y", "z">>

Lower(c) ==
    IF \E i \in 1..26 : UPPERCASE[i] = c
    THEN LOWERCASE[CHOOSE i \in 1..26 : UPPERCASE[i] = c]
    ELSE c

lower(s) == [i \in 1..Len(s) |-> Lower(s[i])]

\* Python's `sub in s`
Contains(s, sub) ==
    \E i \in 0..(Len(s) - Len(sub)) :
        \A j \in 1..Len(sub) : s[i + j] = sub[j]

\* Python's s.startswith(p)
StartsWith(s, p) ==
    /\ Len(p) <= Len(s)
    /\ \A j \in 1..Len(p) : s[j] = p[j]

\* Python's s.strip() == "" for the characters of the model
IsBlank(s) == \A i \in 1..Len(s) : s[i] = " "

Digit(d) ==
    CASE d = 0 -> "0" [] d = 1 -> "1" [] d = 2 -> "2" [] d = 3 -> "3"
      [] d = 4 -> "4" [] d = 5 -> "5" [] d = 6 -> "6" [] d = 7 -> "7"
      [] d = 8 -> "8" [] d = 9 -> "9"

\* str(n) of an int
RECURSIVE NatStr(_)
NatStr(n) == IF n < 10 THEN <<Digit(n)>> ELSE Append(NatStr(n \div 10), Digit(n % 10))

IntStr(n) == IF n < 0 THEN <<"-">> \o NatStr(-n) ELSE NatStr(n)

\* faulty variant: no str is falsy
Falsy_Never(s) == FALSE

\* not s, of a str (or of None, written as the empty sequence)
Falsy(s) == s = <<>>

\* s[:n] of a list
Slice(s, n) ==
    LET m == IF n < 0 THEN Len(s) + n ELSE n
    IN SubSeq(s, 1, IF m < 0 THEN 0 ELSE IF m > Len(s) THEN Len(s) ELSE m)

\* the characters of the model in code point order
ALPHABET ==
    <<" ", "-", ".", "/", "0", "1", "2", "3", "4", "5", "6", "7", "8", "9", ":">>
        \o UPPERCASE \o <<"[", "]", "_">> \o LOWERCASE

ord(c) == CHOOSE i \in 1..Len(ALPHABET) : ALPHABET[i] = c

\* a < b of two str
StrLess(a, b) ==
    \E i \in 1..(Len(a) + 1) :
        /\ i <= Len(b)
        /\ \A j \in 1..(i - 1) : a[j] = b[j]
        /\ (i = Len(a) + 1 \/ ord(a[i]) < ord(b[i]))

\* str(b) of a bool
BoolStr(b) == IF b THEN <<"T", "r", "u", "e">> ELSE <<"F", "a", "l", "s", "e">>

HTTP_PREFIX == <<"h", "t", "t", "p", ":", "/", "/">>
HTTPS_PREFIX == <<"h", "t", "t", "p", "s", ":", "/", "/">>

FMT_TEXT == <<"t", "e", "x", "t">>
FMT_MARKDOWN == <<"m", "a", "r", "k", "d", "o", "w", "n">>
FMT_HTML == <<"h", "t", "m", "l">>

NEWS_TERMS ==
    {<<"U+65B0", "U+805E">>,
     <<"U+6700", "U+65B0">>,
     <<"U+4ECA", "U+65E5">>,
     <<"n", "e", "w", "s">>,
     <<"l", "a", "t", "e", "s", "t">>}
DOCS_TERMS ==
    {<<"U+6587", "U+6A94">>,
     <<"U+6559", "U+7A0B">>,
     <<"U+6307", "U+5357">>,
     <<"d", "o", "c", "s">>,
     <<"t", "u", "t", "o", "r", "i", "a", "l">>,
     <<"g", "u", "i", "d", "e">>}

----------------------------------------------------------------------------
(* cachetools.TTLCache: items in link order, least recently used first.   *)
(* at is the time of the store (history field, not read by the cache).    *)

TTLCache(maxsize, ttl) == [maxsize |-> maxsize, ttl |-> ttl, items |-> <<>>]

Index(c, k) ==
    IF \E i \in 1..Len(c.items) : c.items[i].key = k
    THEN CHOOSE i \in 1..Len(c.items) : c.items[i].key = k
    ELSE 0

Live(item, t) == t < item.expires

\* key in cache
TTLContains(c, k, t) ==
    \E i \in 1..Len(c.items) : c.items[i].key = k /\ Live(c.items[i], t)

RemoveAt(s, i) == SubSeq(s, 1, i - 1) \o SubSeq(s, i + 1, Len(s))

\* cache[key] of a key that is in the cache: the value, and the link moved
\* to the most-recently-used end
TTLValue(c, k) == c.items[Index(c, k)].value

\* faulty variant: a read that leaves the order of the links as it is
TTLTouch_NoReorder(c, k) == c

TTLTouch(c, k) ==
    LET i == Index(c, k) IN
    [c EXCEPT !.items = Append(RemoveAt(c.items, i), c.items[i])]

\* cache.expire(t)
TTLExpire(c, t) ==
    [c EXCEPT !.items = SelectSeq(c.items, LAMBDA it : Live(it, t))]

\* cache[key] = value
TTLSet(c, k, v, t) ==
    LET e == TTLExpire(c, t)
        i == Index(e, k)
        kept == IF i # 0 THEN RemoveAt(e.items, i)
                ELSE IF Len(e.items) + 1 > e.maxsize
                     THEN SubSeq(e.items, Len(e.items) + 2 - e.maxsize, Len(e.items))
                     ELSE e.items
    IN [e EXCEPT !.items =
            Append(kept, [key |-> k, value |-> v, expires |-> t + e.ttl, at |-> t])]

\* cache.clear()
TTLClear(c) == [c EXCEPT !.items = <<>>]

\* len(cache)
TTLLen(c, t) == Len(TTLExpire(c, t).items)


----------------------------------------------------------------------------
(* Python dict helpers *)

\* {**a, **b}
Merge(a, b) ==
    [f \in DOMAIN a \cup DOMAIN b |-> IF f \in DOMAIN b THEN b[f] ELSE a[f]]

\* d[k] = v on a dict held as a function
Put(d, k, v) == [x \in DOMAIN d \cup {k} |-> IF x = k THEN v ELSE d[x]]

EmptyDict == [x \in {} |-> 0]

\* The shared mutable state a coroutine step reads and writes
Globals ==
    [sc |-> search_cache, uc |-> url_cache, times |-> search_cache_times,
     stats |-> cache_stats, sem |-> request_semaphore, heap |-> heap]

NoLookups == <<>>

----------------------------------------------------------------------------
(* search_duckduckgo *)

\* faulty variant: the docs terms are looked for first
QueryTtl_DocsFirst(query, cfg) ==
    IF \E term \in DOCS_TERMS : Contains(lower(query), term)
    THEN CACHE_TTL_DOCS
    ELSE IF \E term \in NEWS_TERMS : Contains(lower(query), term)
         THEN CACHE_TTL_NEWS
         ELSE cfg.CACHE_TTL

\* the TTL of the query's class
QueryTtl(query, cfg) ==
    IF \E term \in NEWS_TERMS : Contains(lower(query), term)
    THEN CACHE_TTL_NEWS
    ELSE IF \E term \in DOCS_TERMS : Contains(lower(query), term)
         THEN CACHE_TTL_DOCS
         ELSE cfg.CACHE_TTL

\* f"{query}:{limit}:{region}:{safe_search}"
SearchCacheKey(query, limit, region, safe_search) ==
    query \o <<":">> \o IntStr(limit) \o <<":">> \o region \o <<":">>
          \o BoolStr(safe_search)

\* faulty variant: a lookup that trusts the TTLCache and skips the check of
\* the class TTL
SearchCacheHit_NoTimeCheck(g, key, ttl, t) ==
    /\ TTLContains(g.sc, key, t)
    /\ key \in DOMAIN g.times

\* cache_key in search_cache and (now - cache_time) < ttl
SearchCacheHit(g, key, ttl, t) ==
    /\ TTLContains(g.sc, key, t)
    /\ key \in DOMAIN g.times
    /\ t - g.times[key] < ttl

\* faulty variant: a search_duckduckgo that does not count its cache hits
SearchStart_HitUncounted(g, query, limit, region, safe_search, cfg, t) ==
    LET ttl == QueryTtl(query, cfg)
        key == SearchCacheKey(query, limit, region, safe_search)
    IN IF SearchCacheHit(g, key, ttl, t)
       THEN [g |-> [g EXCEPT !.sc = TTLTouch(@, key)],
             pc |-> "returned", key |-> key, list |-> TTLValue(g.sc, key),
             resp |-> [status |-> "success", source |-> "cache",
                       results |-> g.heap[TTLValue(g.sc, key)]]]
       ELSE LET g1 == [g EXCEPT !.stats.misses = @ + 1] IN
            IF g1.sem > 0
            THEN [g |-> [g1 EXCEPT !.sem = @ - 1], pc |-> "sd_net", key |-> key,
                  list |-> 0, resp |-> [status |-> "pending"]]
            ELSE [g |-> g1, pc |-> "sd_wait", key |-> key,
                  list |-> 0, resp |-> [status |-> "pending"]]

\* search_duckduckgo up to its first suspension: the cache lookup, the
\* counters, and the acquisition of a permit for the backend request
SearchStart(g, query, limit, region, safe_search, cfg, t) ==
    LET ttl == QueryTtl(query, cfg)
        key == SearchCacheKey(query, limit, region, safe_search)
    IN IF SearchCacheHit(g, key, ttl, t)
       THEN [g |-> [g EXCEPT !.stats.hits = @ + 1, !.sc = TTLTouch(@, key)],
             pc |-> "returned", key |-> key, list |-> TTLValue(g.sc, key),
             resp |-> [status |-> "success", source |-> "cache",
                       results |-> g.heap[TTLValue(g.sc, key)]]]
       ELSE LET g1 == [g EXCEPT !.stats.misses = @ + 1] IN
            IF g1.sem > 0
            THEN [g |-> [g1 EXCEPT !.sem = @ - 1], pc |-> "sd_net", key |-> key,
                  list |-> 0, resp |-> [status |-> "pending"]]
            ELSE [g |-> g1, pc |-> "sd_wait", key |-> key,
                  list |-> 0, resp |-> [status |-> "pending"]]

\* what the lookup of a search_duckduckgo call did (history record): age is
\* the time since the store of the entry found under the key, -1 without one
SearchLookupEvent(g, r, ttl, t) ==
    LET i == Index(g.sc, r.key) IN
    [cache |-> "search", key |-> r.key, ttl |-> ttl,
     age |-> IF i = 0 THEN -1 ELSE t - g.sc.items[i].at,
     served |-> r.pc = "returned",
     hits |-> r.g.stats.hits - g.stats.hits,
     misses |-> r.g.stats.misses - g.stats.misses,
     sem |-> g.sem, sem_after |-> r.g.sem,
     calls |-> IF r.pc = "sd_net" THEN <<"backend">> ELSE <<>>]

\* format_url_for_display for the URLs of the model, whose paths are short:
\* the netloc and path, without a leading www.
WWW_PREFIX == <<"w", "w", "w", ".">>

format_url_for_display(url) ==
    LET rest == IF StartsWith(url, HTTPS_PREFIX)
                THEN SubSeq(url, Len(HTTPS_PREFIX) + 1, Len(url))
                ELSE IF StartsWith(url, HTTP_PREFIX)
                     THEN SubSeq(url, Len(HTTP_PREFIX) + 1, Len(url))
                     ELSE url
    IN IF StartsWith(rest, WWW_PREFIX)
       THEN SubSeq(rest, Len(WWW_PREFIX) + 1, Len(rest))
       ELSE rest

\* url_text coerced to carry a scheme
WithScheme(url) ==
    IF StartsWith(url, HTTP_PREFIX) \/ StartsWith(url, HTTPS_PREFIX)
    THEN url
    ELSE HTTPS_PREFIX \o url

\* one result dict built from a result node of the backend page
ResultDict(node) ==
    [title |-> node.title, url |-> WithScheme(node.url),
     display_url |-> format_url_for_display(WithScheme(node.url)),
     snippet |-> node.snippet]

\* the results list parsed from the page: result_elements[:limit]
ParseResults(nodes, limit) ==
    LET cut == Slice(nodes, limit)
    IN [i \in 1..Len(cut) |-> ResultDict(cut[i])]

\* a list object is created: the first free slot of the heap
NewId(h) ==
    IF \E i \in 1..Len(h) : h[i] = <<[free |-> TRUE]>>
    THEN CHOOSE i \in 1..Len(h) : h[i] = <<[free |-> TRUE]>>
                /\ \A j \in 1..(i - 1) : h[j] # <<[free |-> TRUE]>>
    ELSE Len(h) + 1

Store(h, id, list) ==
    IF id > Len(h) THEN Append(h, list) ELSE [h EXCEPT ![id] = list]

\* faulty variant: a search_duckduckgo that reports an HTTP status error of
\* the backend as a general failure
SearchResponse_HttpAsGeneral(g, key, limit, outcome, t) ==
    LET g1 == [g EXCEPT !.sem = @ + 1] IN
    CASE outcome.kind = "ok" ->
            LET results == ParseResults(outcome.nodes, limit)
                id == NewId(g.heap)
            IN [g |-> [g1 EXCEPT !.heap = Store(@, id, results),
                                 !.sc = TTLSet(@, key, id, t),
                                 !.times = Put(@, key, t)],
                list |-> id,
                resp |-> [status |-> "success", source |-> "duckduckgo",
                          results |-> results, suggestion |-> outcome.suggestion,
                          total |-> Len(results)]]
      [] outcome.kind = "timeout" ->
            [g |-> g1, list |-> 0,
             resp |-> [status |-> "error", message |-> "search timed out",
                       suggestion |-> "shorten the query or check the network",
                       error_type |-> "timeout"]]
      [] OTHER ->
            [g |-> g1, list |-> 0,
             resp |-> [status |-> "error", message |-> "search failed",
                       suggestion |-> "try other keywords",
                       error_type |-> "general"]]

\* the response of search_duckduckgo to the outcome of the backend request;
\* on success the new list is stored in the cache with its store time
SearchResponse(g, key, limit, outcome, t) ==
    LET g1 == [g EXCEPT !.sem = @ + 1] IN
    CASE outcome.kind = "ok" ->
            LET results == ParseResults(outcome.nodes, limit)
                id == NewId(g.heap)
            IN [g |-> [g1 EXCEPT !.heap = Store(@, id, results),
                                 !.sc = TTLSet(@, key, id, t),
                                 !.times = Put(@, key, t)],
                list |-> id,
                resp |-> [status |-> "success", source |-> "duckduckgo",
                          results |-> results, suggestion |-> outcome.suggestion,
                          total |-> Len(results)]]
      [] outcome.kind = "timeout" ->
            [g |-> g1, list |-> 0,
             resp |-> [status |-> "error", message |-> "search timed out",
                       suggestion |-> "shorten the query or check the network",
                       error_type |-> "timeout"]]
      [] outcome.kind = "http" ->
            [g |-> g1, list |-> 0,
             resp |-> [status |-> "error", message |-> "search service unavailable",
                       suggestion |-> "retry later or simplify the query",
                       error_type |-> "http", code |-> outcome.code]]
      [] OTHER ->
            [g |-> g1, list |-> 0,
             resp |-> [status |-> "error", message |-> "search failed",
                       suggestion |-> "try other keywords",
                       error_type |-> "general"]]

----------------------------------------------------------------------------
(* fetch_url *)

\* f"{url}:{content_format}"
UrlCacheKey(url, content_format) == url \o <<":">> \o content_format

\* a fetch_url coroutine that gather has created and not yet run; calls and
\* outs are history: the targets of the requests it has issued and the
\* outcomes it has seen
NewFetch(url, content_format) ==
    [pc |-> "new", url |-> url, fmt |-> content_format,
     max_length |-> CONTENT_LENGTH_LIMIT, key |-> <<>>,
     use_jina |-> FALSE, calls |-> <<>>, outs |-> <<>>,
     result |-> [status |-> "pending"]]

\* where the primary request goes: the extraction service or the URL itself
Target(f) == IF f.use_jina THEN "r.jina.ai" ELSE "direct"

\* faulty variant: a fetch_url that issues its primary request without
\* waiting for a permit
FetchUrlStart_NoGate(g, f, cfg, t) ==
    IF f.url = <<>>
    THEN [g |-> g,
          f |-> [f EXCEPT !.pc = "done",
                          !.result = [status |-> "error",
                                      message |-> <<"invalid url">>]]]
    ELSE LET url == WithScheme(f.url)
             key == UrlCacheKey(url, f.fmt)
             f1 == [f EXCEPT !.url = url, !.key = key,
                             !.use_jina = (f.fmt = FMT_MARKDOWN /\ cfg.USE_JINA_API)]
         IN IF TTLContains(g.uc, key, t)
            THEN [g |-> [g EXCEPT !.stats.hits = @ + 1, !.uc = TTLTouch(@, key)],
                  f |-> [f1 EXCEPT !.pc = "done", !.result = TTLValue(g.uc, key)]]
            ELSE [g |-> [g EXCEPT !.stats.misses = @ + 1, !.sem = @ - 1],
                  f |-> [f1 EXCEPT !.pc = "net", !.calls = <<Target(f1)>>]]

\* faulty variant: a fetch_url that enters the gate before it looks in the
\* cache
FetchUrlStart_GateFirst(g, f, cfg, t) ==
    IF f.url = <<>>
    THEN [g |-> g,
          f |-> [f EXCEPT !.pc = "done",
                          !.result = [status |-> "error",
                                      message |-> <<"invalid url">>]]]
    ELSE LET url == WithScheme(f.url)
             key == UrlCacheKey(url, f.fmt)
             f1 == [f EXCEPT !.url = url, !.key = key,
                             !.use_jina = (f.fmt = FMT_MARKDOWN /\ cfg.USE_JINA_API)]
         IN IF g.sem = 0
            THEN [g |-> [g EXCEPT !.stats.misses = @ + 1],
                  f |-> [f1 EXCEPT !.pc = "wait"]]
            ELSE IF TTLContains(g.uc, key, t)
                 THEN [g |-> [g EXCEPT !.stats.hits = @ + 1,
                                       !.uc = TTLTouch(@, key)],
                       f |-> [f1 EXCEPT !.pc = "done",
                                        !.result = TTLValue(g.uc, key)]]
                 ELSE [g |-> [g EXCEPT !.stats.misses = @ + 1, !.sem = @ - 1],
                       f |-> [f1 EXCEPT !.pc = "net", !.calls = <<Target(f1)>>]]

\* faulty variant: a fetch_url that does not count its cache hits
FetchUrlStart_HitUncounted(g, f, cfg, t) ==
    IF f.url = <<>>
    THEN [g |-> g,
          f |-> [f EXCEPT !.pc = "done",
                          !.result = [status |-> "error",
                                      message |-> <<"invalid url">>]]]
    ELSE LET url == WithScheme(f.url)
             key == UrlCacheKey(url, f.fmt)
             f1 == [f EXCEPT !.url = url, !.key = key,
                             !.use_jina = (f.fmt = FMT_MARKDOWN /\ cfg.USE_JINA_API)]
         IN IF TTLContains(g.uc, key, t)
            THEN [g |-> [g EXCEPT !.uc = TTLTouch(@, key)],
                  f |-> [f1 EXCEPT !.pc = "done", !.result = TTLValue(g.uc, key)]]
            ELSE LET g1 == [g EXCEPT !.stats.misses = @ + 1] IN
                 IF g1.sem > 0
                 THEN [g |-> [g1 EXCEPT !.sem = @ - 1],
                       f |-> [f1 EXCEPT !.pc = "net", !.calls = <<Target(f1)>>]]
                 ELSE [g |-> g1, f |-> [f1 EXCEPT !.pc = "wait"]]

\* faulty variant: a fetch_url that builds its cache key from the URL as
\* given and adds the scheme afterwards
FetchUrlStart_KeyBeforeScheme(g, f, cfg, t) ==
    IF f.url = <<>>
    THEN [g |-> g,
          f |-> [f EXCEPT !.pc = "done",
                          !.result = [status |-> "error",
                                      message |-> <<"invalid url">>]]]
    ELSE LET url == WithScheme(f.url)
             key == UrlCacheKey(f.url, f.fmt)
             f1 == [f EXCEPT !.url = url, !.key = key,
                             !.use_jina = (f.fmt = FMT_MARKDOWN /\ cfg.USE_JINA_API)]
         IN IF TTLContains(g.uc, key, t)
            THEN [g |-> [g EXCEPT !.stats.hits = @ + 1, !.uc = TTLTouch(@, key)],
                  f |-> [f1 EXCEPT !.pc = "done", !.result = TTLValue(g.uc, key)]]
            ELSE LET g1 == [g EXCEPT !.stats.misses = @ + 1] IN
                 IF g1.sem > 0
                 THEN [g |-> [g1 EXCEPT !.sem = @ - 1],
                       f |-> [f1 EXCEPT !.pc = "net", !.calls = <<Target(f1)>>]]
                 ELSE [g |-> g1, f |-> [f1 EXCEPT !.pc = "wait"]]

\* fetch_url up to its first suspension: validation, scheme coercion, the
\* cache lookup, the counters, and the acquisition of a permit followed by
\* the primary request
FetchUrlStart(g, f, cfg, t) ==
    IF f.url = <<>>
    THEN [g |-> g,
          f |-> [f EXCEPT !.pc = "done",
                          !.result = [status |-> "error",
                                      message |-> <<"invalid url">>]]]
    ELSE LET url == WithScheme(f.url)
             key == UrlCacheKey(url, f.fmt)
             f1 == [f EXCEPT !.url = url, !.key = key,
                             !.use_jina = (f.fmt = FMT_MARKDOWN /\ cfg.USE_JINA_API)]
         IN IF TTLContains(g.uc, key, t)
            THEN [g |-> [g EXCEPT !.stats.hits = @ + 1, !.uc = TTLTouch(@, key)],
                  f |-> [f1 EXCEPT !.pc = "done", !.result = TTLValue(g.uc, key)]]
            ELSE LET g1 == [g EXCEPT !.stats.misses = @ + 1] IN
                 IF g1.sem > 0
                 THEN [g |-> [g1 EXCEPT !.sem = @ - 1],
                       f |-> [f1 EXCEPT !.pc = "net", !.calls = <<Target(f1)>>]]
                 ELSE [g |-> g1, f |-> [f1 EXCEPT !.pc = "wait"]]

\* what the lookup of a fetch_url call did (history record)
UrlLookupEvent(g, r, t) ==
    LET i == Index(g.uc, r.f.key) IN
    [cache |-> "url", key |-> r.f.key, ttl |-> g.uc.ttl,
     age |-> IF i = 0 THEN -1 ELSE t - g.uc.items[i].at,
     served |-> r.f.pc = "done",
     hits |-> r.g.stats.hits - g.stats.hits,
     misses |-> r.g.stats.misses - g.stats.misses,
     sem |-> g.sem, sem_after |-> r.g.sem, calls |-> r.f.calls,
     same |-> i # 0 /\ r.f.result = g.uc.items[i].value]

\* the lookups of a first run of fetch_url: none when the URL is rejected
UrlLookups(g, r, t) == IF r.f.key = <<>> THEN <<>> ELSE <<UrlLookupEvent(g, r, t)>>

\* faulty variant: a table without the entry for 503
HttpErrorMessage_No503(code) ==
    CASE code = 404 -> <<"page not found or removed">>
      [] code = 403 -> <<"access denied">>
      [] code = 500 -> <<"server error">>
      [] OTHER -> <<"HTTP", code>>

\* the error_messages table
HttpErrorMessage(code) ==
    CASE code = 404 -> <<"page not found or removed">>
      [] code = 403 -> <<"access denied">>
      [] code = 500 -> <<"server error">>
      [] code = 503 -> <<"temporarily unavailable">>
      [] OTHER -> <<"HTTP", code>>

\* the markers appended to a content that was cut
MARKER_LINK == <<".", ".", ".", "\n", "\n", "[cut, follow the link]">>
MARKER_HTML == <<".", ".", ".">>
MARKER_CUT == <<".", ".", ".", "\n", "\n", "[cut]">>

\* if max_length and len(content) > max_length:
\*     content = content[:max_length] + marker
Truncated(content, max_length, marker) ==
    IF max_length # 0 /\ Len(content) > max_length
    THEN Slice(content, max_length) \o marker
    ELSE content

\* what the response f has just received gives under each extraction: the
\* text of the extraction service, the main element, the cleaned text, and
\* the cleaned text of the fallback
Body(f) == f.outs[Len(f.outs)].page

\* the success result of the primary request, by format
SuccessResult(f, code) ==
    [status |-> "success",
     format |-> IF f.use_jina THEN FMT_MARKDOWN
                ELSE IF f.fmt = FMT_HTML THEN FMT_HTML ELSE FMT_TEXT,
     url |-> f.url,
     content |-> IF f.use_jina
                 THEN Truncated(Body(f).markdown, f.max_length, MARKER_LINK)
                 ELSE IF f.fmt = FMT_HTML
                      THEN Truncated(Body(f).html, f.max_length, MARKER_HTML)
                      ELSE Truncated(Body(f).text, f.max_length, MARKER_LINK),
     code |-> code]

\* faulty variant: a fallback result that claims the markdown format and
\* carries no note
FallbackResult_Markdown(f, code) ==
    [status |-> "success", format |-> FMT_MARKDOWN, url |-> f.url,
     content |-> Truncated(Body(f).plain, f.max_length, MARKER_CUT), code |-> code]

\* the success result of the fallback request
FallbackResult(f, code) ==
    [status |-> "success", format |-> FMT_TEXT, url |-> f.url,
     content |-> Truncated(Body(f).plain, f.max_length, MARKER_CUT), code |-> code,
     note |-> "switched to plain text, markdown conversion failed"]

\* a fetch_url that returns `result`, leaving the `async with`
FetchReturn(g, f, result) ==
    [g |-> [g EXCEPT !.sem = @ + 1],
     f |-> [f EXCEPT !.pc = "done", !.result = result]]

\* faulty variant: a fetch_url that returns its result without storing it
FetchStore_NotStored(g, f, result, t) == FetchReturn(g, f, result)

\* a fetch_url that stores `result` in url_cache and returns it
FetchStore(g, f, result, t) ==
    LET r == FetchReturn(g, f, result) IN
    [r EXCEPT !.g.uc = TTLSet(@, f.key, result, t)]

\* faulty variant: the fallback request queues for a permit of its own while
\* the permit of the primary request is still held
PrimaryFailure_Reacquire(g, f, outcome) ==
    CASE outcome.kind = "timeout" ->
            IF f.use_jina
            THEN [g |-> g, f |-> [f EXCEPT !.pc = "wait"]]
            ELSE FetchReturn(g, f,
                    [status |-> "error", url |-> f.url,
                     message |-> <<"request timed out">>,
                     error_type |-> "timeout"])
      [] outcome.kind = "http" ->
            FetchReturn(g, f,
                [status |-> "error", url |-> f.url,
                 message |-> HttpErrorMessage(outcome.code),
                 code |-> outcome.code, error_type |-> "http"])
      [] OTHER ->
            FetchReturn(g, f,
                [status |-> "error", url |-> f.url,
                 message |-> <<"cannot read the page">>,
                 error_type |-> "general"])

\* the except clauses of the primary request
PrimaryFailure(g, f, outcome) ==
    CASE outcome.kind = "timeout" ->
            IF f.use_jina
            THEN [g |-> g,
                  f |-> [f EXCEPT !.pc = "fallback", !.calls = Append(@, "direct")]]
            ELSE FetchReturn(g, f,
                    [status |-> "error", url |-> f.url,
                     message |-> <<"request timed out">>,
                     error_type |-> "timeout"])
      [] outcome.kind = "http" ->
            FetchReturn(g, f,
                [status |-> "error", url |-> f.url,
                 message |-> HttpErrorMessage(outcome.code),
                 code |-> outcome.code, error_type |-> "http"])
      [] OTHER ->
            FetchReturn(g, f,
                [status |-> "error", url |-> f.url,
                 message |-> <<"cannot read the page">>,
                 error_type |-> "general"])

\* faulty variant: a failed fallback that returns with the permit still held
FallbackFailure_Leak(g, f, outcome) ==
    [g |-> g,
     f |-> [f EXCEPT !.pc = "done",
                     !.result = [status |-> "error", url |-> f.url,
                                 message |-> <<"cannot read the page, retry later">>,
                                 error_type |-> "timeout"]]]

\* faulty variant: a failed fallback classified by what made it fail
FallbackFailure_ByKind(g, f, outcome) ==
    FetchReturn(g, f,
        IF outcome.kind = "http"
        THEN [status |-> "error", url |-> f.url,
              message |-> HttpErrorMessage(outcome.code),
              code |-> outcome.code, error_type |-> "http"]
        ELSE [status |-> "error", url |-> f.url,
              message |-> <<"cannot read the page, retry later">>,
              error_type |-> IF outcome.kind = "timeout" THEN "timeout"
                             ELSE "general"])

\* the except clause of the fallback request
FallbackFailure(g, f, outcome) ==
    FetchReturn(g, f,
        [status |-> "error", url |-> f.url,
         message |-> <<"cannot read the page, retry later">>,
         error_type |-> "timeout"])

\* fetch_url resumed by the outcome of the request it awaits
FetchUrlResponse(g, f, outcome, t) ==
    LET f1 == [f EXCEPT !.outs = Append(@, outcome)] IN
    IF f.pc = "net"
    THEN IF outcome.kind = "ok"
         THEN FetchStore(g, f1, SuccessResult(f1, outcome.code), t)
         ELSE PrimaryFailure(g, f1, outcome)
    ELSE IF outcome.kind = "ok"
         THEN FetchStore(g, f1, FallbackResult(f1, outcome.code), t)
         ELSE FallbackFailure(g, f1, outcome)

\* fetch_url resumed with a permit: the primary request is issued
FetchUrlAcquire(g, f) ==
    [g |-> [g EXCEPT !.sem = @ - 1],
     f |-> [f EXCEPT !.pc = "net", !.calls = <<Target(f)>>]]

----------------------------------------------------------------------------
(* The tool calls. A task slot holds one tool call from its start to its   *)
(* response; resp is the response as serialised when the call returned.    *)

VALID_REGIONS ==
    {<<"t", "w">>, <<"u", "s">>, <<"h", "k">>, <<"c", "n">>, <<"j", "p">>,
     <<"g", "l", "o", "b", "a", "l">>}

VALID_FORMATS == {FMT_TEXT, FMT_MARKDOWN, FMT_HTML}

\* an optional argument of a tool: None, a value of the wrong type, or a
\* value
None == [given |-> FALSE, typed |-> FALSE]
Arg(v) == [given |-> TRUE, typed |-> TRUE, v |-> v]
Mistyped == [given |-> TRUE, typed |-> FALSE]

\* the arguments advanced_search and summarize_search_results keep for the
\* time after search_duckduckgo has returned
NoArgs == [limit |-> 0, filters |-> None, sort_by |-> "None", reverse_sort |-> FALSE]

IdleTask ==
    [op |-> "none", pc |-> "idle", query |-> <<>>, limit |-> 0, region |-> <<>>,
     fmt |-> <<>>, key |-> <<>>, list |-> 0, suggestion |-> "None",
     kids |-> <<>>, args |-> NoArgs, nreq |-> 0, outs |-> <<>>, found |-> -1,
     resp |-> [status |-> "none"]]

Free(t) == task[t].pc = "idle" /\ ncalls < MaxCalls

\* no administrative call in this step
NoAdmin == [op |-> "none", args |-> <<>>, status |-> "none"]

NoEvent == [lookups |-> NoLookups, done |-> {}, admin |-> NoAdmin]

\* the response of a tool call that has returned (history record)
Completion(t, rec) ==
    [t |-> t, op |-> rec.op, query |-> rec.query, key |-> rec.key,
     limit |-> rec.limit, region |-> rec.region, args |-> rec.args,
     nreq |-> rec.nreq, outs |-> rec.outs, found |-> rec.found,
     kids |-> rec.kids, resp |-> rec.resp,
     prev |-> IF rec.op = "search" /\ rec.key \in DOMAIN returned
              THEN {returned[rec.key]} ELSE {}]

\* the keys whose values the lookups of a step read from a cache, in order
ReadKeys(lookups, cache) ==
    LET served == SelectSeq(lookups, LAMBDA l : l.cache = cache /\ l.served)
    IN [i \in 1..Len(served) |-> served[i].key]

\* the keys a step of task t stores: the key of a search whose backend
\* request has given a list, and the key of each fetch_url whose request
\* has given a success result
StoredKeys(t, rec, cache) ==
    IF cache = "search"
    THEN IF task[t].pc = "sd_net" /\ rec.list # 0 THEN <<task[t].key>> ELSE <<>>
    ELSE LET n == IF Len(task[t].kids) < Len(rec.kids)
                  THEN Len(task[t].kids) ELSE Len(rec.kids)
             done == SelectSeq([i \in 1..n |->
                                  [key |-> rec.kids[i].key,
                                   stored |-> /\ task[t].kids[i].pc \in {"net", "fallback"}
                                              /\ rec.kids[i].pc = "done"
                                              /\ rec.kids[i].result.status = "success"]],
                               LAMBDA x : x.stored)
         IN [i \in 1..Len(done) |-> done[i].key]

\* the order of use after the keys ks have been read or stored, in order
RECURSIVE Touched(_, _)
Touched(order, ks) ==
    IF ks = <<>> THEN order
    ELSE Touched(Append(SelectSeq(order, LAMBDA k : k # ks[1]), ks[1]), Tail(ks))

\* the order of use of the keys a cache still holds
Kept(order, c) ==
    SelectSeq(order, LAMBDA k : \E i \in 1..Len(c.items) : c.items[i].key = k)

\* task t has run up to `rec`; a call that has returned frees its slot
Step(t, rec, lookups) ==
    /\ used' = [search |-> Kept(Touched(used.search,
                                        ReadKeys(lookups, "search")
                                            \o StoredKeys(t, rec, "search")),
                                search_cache'),
                url |-> Kept(Touched(used.url,
                                     ReadKeys(lookups, "url")
                                         \o StoredKeys(t, rec, "url")),
                             url_cache')]
    /\ task' = [task EXCEPT ![t] = IF rec.pc = "done" THEN IdleTask ELSE rec]
    /\ ev' = [lookups |-> lookups,
              done |-> IF rec.pc = "done" THEN {Completion(t, rec)} ELSE {},
              admin |-> NoAdmin]
    /\ returned' = IF rec.pc = "done" /\ rec.op = "search"
                       /\ rec.resp.status = "success"
                   THEN Put(returned, rec.key,
                            [results |-> rec.resp.results, at |-> now,
                             suggestion |-> IF "suggestion" \in DOMAIN rec.resp
                                            THEN rec.resp.suggestion
                                            ELSE "None"])
                   ELSE returned

\* the heap without the lists nothing refers to any more (the cache and
\* the calls in progress hold the only references)
FreeSlot == <<[free |-> TRUE]>>

RECURSIVE Trim(_)
Trim(h) ==
    IF h # <<>> /\ h[Len(h)] = FreeSlot THEN Trim(SubSeq(h, 1, Len(h) - 1)) ELSE h

Collect(h, sc, tk) ==
    LET refs == {sc.items[i].value : i \in 1..Len(sc.items)}
                    \cup {tk[t].list : t \in Tasks}
    IN Trim([i \in 1..Len(h) |-> IF i \in refs THEN h[i] ELSE FreeSlot])

\* the new heap, once the new cache and the new tasks are known
SetHeap(h) == heap' = Collect(h, search_cache', task')

SetGlobals(g) ==
    /\ search_cache' = g.sc
    /\ url_cache' = g.uc
    /\ search_cache_times' = g.times
    /\ cache_stats' = g.stats
    /\ request_semaphore' = g.sem

Static == UNCHANGED <<now, gate, CONFIG>>

\* limit as search and search_and_fetch normalise it
ClampLimit(limit, default) ==
    LET l == IF limit < 1 THEN default ELSE limit
    IN IF l < 10 THEN l ELSE 10

ClampRegion(region) == IF region \in VALID_REGIONS THEN region ELSE <<"t", "w">>

\* faulty variant: a search_and_fetch that answers a failed search with
\* no_results
AfterSearch_ErrorAsNoResults(rec, g, sresp, list) ==
    IF sresp.status # "success"
    THEN [rec EXCEPT !.pc = "done",
            !.resp = [status |-> "no_results", suggestions |-> <<rec.query>>]]
    ELSE IF g.heap[list] = <<>>
         THEN [rec EXCEPT !.pc = "done", !.list = list,
                 !.resp = [status |-> "no_results",
                           message |-> <<"no results for", rec.query>>,
                           suggestions |-> <<rec.query \o <<" ", "1">>,
                                             rec.query \o <<" ", "2">>,
                                             <<"3", " ">> \o rec.query>>,
                           alternative_queries |->
                               <<rec.query \o <<" ", "1">>,
                                 rec.query \o <<" ", "2">>,
                                 <<"3", " ">> \o rec.query>>]]
         ELSE [rec EXCEPT !.pc = "gather", !.list = list,
                 !.suggestion = IF "suggestion" \in DOMAIN sresp
                                THEN sresp.suggestion ELSE "None",
                 !.kids = [i \in 1..Len(g.heap[list]) |->
                              NewFetch(g.heap[list][i].url, rec.fmt)]]

\* search_and_fetch once search_duckduckgo has returned: the error and
\* no_results exits, or the fetch_url coroutines handed to gather
AfterSearch(rec, g, sresp, list) ==
    IF sresp.status # "success"
    THEN [rec EXCEPT !.pc = "done", !.resp = sresp]
    ELSE IF g.heap[list] = <<>>
         THEN [rec EXCEPT !.pc = "done", !.list = list,
                 !.resp = [status |-> "no_results",
                           message |-> <<"no results for", rec.query>>,
                           suggestions |-> <<rec.query \o <<" ", "1">>,
                                             rec.query \o <<" ", "2">>,
                                             <<"3", " ">> \o rec.query>>,
                           alternative_queries |->
                               <<rec.query \o <<" ", "1">>,
                                 rec.query \o <<" ", "2">>,
                                 <<"3", " ">> \o rec.query>>]]
         ELSE [rec EXCEPT !.pc = "gather", !.list = list,
                 !.suggestion = IF "suggestion" \in DOMAIN sresp
                                THEN sresp.suggestion ELSE "None",
                 !.kids = [i \in 1..Len(g.heap[list]) |->
                              NewFetch(g.heap[list][i].url, rec.fmt)]]

\* filters[k] is there and is not empty
Truthy(filters, k) ==
    filters.given /\ k \in DOMAIN filters.v /\ filters.v[k] # <<>>

\* k in title.lower() or k in snippet.lower()
Mentioned(r, k) == Contains(lower(r.title), k) \/ Contains(lower(r.snippet), k)

\* faulty variant: an order by title that tells upper from lower case
TitleBefore_CaseSensitive(x, y, reverse) ==
    IF reverse THEN StrLess(y.title, x.title) ELSE StrLess(x.title, y.title)

\* the key order of list.sort(key = title.lower(), reverse = reverse)
TitleBefore(x, y, reverse) ==
    IF reverse
    THEN StrLess(lower(y.title), lower(x.title))
    ELSE StrLess(lower(x.title), lower(y.title))

\* x put into a sorted list, behind the records that do not sort after it
InsertByTitle(acc, x, reverse) ==
    LET later == {i \in 1..Len(acc) : TitleBefore(x, acc[i], reverse)} IN
    IF later = {}
    THEN Append(acc, x)
    ELSE LET i == CHOOSE k \in later : \A j \in later : k <= j
         IN SubSeq(acc, 1, i - 1) \o <<x>> \o SubSeq(acc, i, Len(acc))

\* list.sort by title: a stable sort
RECURSIVE SortByTitle(_, _)
SortByTitle(results, reverse) ==
    IF results = <<>> THEN <<>>
    ELSE InsertByTitle(SortByTitle(SubSeq(results, 1, Len(results) - 1), reverse),
                       results[Len(results)], reverse)

\* a character of \d
IsDigit(c) == c \in {"0", "1", "2", "3", "4", "5", "6", "7", "8", "9"}

DigitVal(c) == CHOOSE d \in 0..9 : Digit(d) = c

\* int(s) of a run of digits
RECURSIVE Number(_)
Number(s) ==
    IF s = <<>> THEN 0
    ELSE 10 * Number(SubSeq(s, 1, Len(s) - 1)) + DigitVal(s[Len(s)])

\* s[i..j] is inside s and is made of digits
Digits(s, i, j) == i >= 1 /\ j <= Len(s) /\ \A k \in i..j : IsDigit(s[k])

Sep(s, i) == i >= 1 /\ i <= Len(s) /\ s[i] \in {"-", "/"}

\* the first and last position of what re.search finds among the matches
\* `found` (start, end): the leftmost start, and from there the longest,
\* as the greedy \d{1,2} takes two digits when it can
Leftmost(found) ==
    CHOOSE m \in found : \A o \in found :
        m[1] < o[1] \/ (m[1] = o[1] /\ m[2] >= o[2])

\* the matches of (\d{4}[-/]\d{1,2}[-/]\d{1,2})
YearFirst(s) ==
    {<<i, i + 6 + a + b - 1>> : <<i, a, b>> \in
        {x \in (1..Len(s)) \X {1, 2} \X {1, 2} :
            /\ Digits(s, x[1], x[1] + 3)
            /\ Sep(s, x[1] + 4)
            /\ Digits(s, x[1] + 5, x[1] + 4 + x[2])
            /\ Sep(s, x[1] + 5 + x[2])
            /\ Digits(s, x[1] + 6 + x[2], x[1] + 5 + x[2] + x[3])}}

\* the matches of (\d{1,2}[-/]\d{1,2}[-/]\d{4})
YearLast(s) ==
    {<<i, i + a + b + 5>> : <<i, a, b>> \in
        {x \in (1..Len(s)) \X {1, 2} \X {1, 2} :
            /\ Digits(s, x[1], x[1] + x[2] - 1)
            /\ Sep(s, x[1] + x[2])
            /\ Digits(s, x[1] + x[2] + 1, x[1] + x[2] + x[3])
            /\ Sep(s, x[1] + x[2] + x[3] + 1)
            /\ Digits(s, x[1] + x[2] + x[3] + 2, x[1] + x[2] + x[3] + 5)}}

\* the matches of ([A-Z][a-z]+ \d{1,2}, \d{4})
MonthFirst(s) ==
    {<<i, i + n + a + 7>> : <<i, n, a>> \in
        {x \in (1..Len(s)) \X (1..Len(s)) \X {1, 2} :
            /\ \E k \in 1..26 : s[x[1]] = UPPERCASE[k]
            /\ x[1] + x[2] + 1 <= Len(s)
            /\ \A j \in (x[1] + 1)..(x[1] + x[2]) : \E k \in 1..26 : s[j] = LOWERCASE[k]
            /\ s[x[1] + x[2] + 1] = " "
            /\ Digits(s, x[1] + x[2] + 2, x[1] + x[2] + 1 + x[3])
            /\ x[1] + x[2] + x[3] + 3 <= Len(s)
            /\ s[x[1] + x[2] + x[3] + 2] = ","
            /\ s[x[1] + x[2] + x[3] + 3] = " "
            /\ Digits(s, x[1] + x[2] + x[3] + 4, x[1] + x[2] + x[3] + 7)}}

\* str.split(sep) of a str
RECURSIVE Split(_, _)
Split(s, sep) ==
    IF \E i \in 1..Len(s) : s[i] = sep
    THEN LET i == CHOOSE k \in 1..Len(s) :
                      s[k] = sep /\ \A j \in 1..(k - 1) : s[j] # sep
         IN <<SubSeq(s, 1, i - 1)>> \o Split(SubSeq(s, i + 1, Len(s)), sep)
    ELSE <<s>>

\* %B of strptime: the English month names, whatever their case
MONTH_NAMES ==
    <<<<"j", "a", "n", "u", "a", "r", "y">>,
      <<"f", "e", "b", "r", "u", "a", "r", "y">>,
      <<"m", "a", "r", "c", "h">>,
      <<"a", "p", "r", "i", "l">>,
      <<"m", "a", "y">>,
      <<"j", "u", "n", "e">>,
      <<"j", "u", "l", "y">>,
      <<"a", "u", "g", "u", "s", "t">>,
      <<"s", "e", "p", "t", "e", "m", "b", "e", "r">>,
      <<"o", "c", "t", "o", "b", "e", "r">>,
      <<"n", "o", "v", "e", "m", "b", "e", "r">>,
      <<"d", "e", "c", "e", "m", "b", "e", "r">>>>

DaysIn(y, m) ==
    IF m = 2
    THEN IF y % 4 = 0 /\ (y % 100 # 0 \/ y % 400 = 0) THEN 29 ELSE 28
    ELSE IF m \in {4, 6, 9, 11} THEN 30 ELSE 31

\* a datetime at midnight as a number that orders as datetimes do
Date(y, m, d) == y * 10000 + m * 100 + d

\* datetime(1900, 1, 1), the key of a record without a date
DEFAULT_DATE == 19000101

\* datetime.strptime of the three numbers: -1 stands for ValueError
Parsed(y, m, d) ==
    IF y >= 1 /\ m \in 1..12 /\ d >= 1 /\ d <= DaysIn(y, m)
    THEN Date(y, m, d) ELSE -1

\* the body of the loop of extract_date for the text a pattern has found:
\* a date, or -1 when no branch returns; sep is the separator of the branch
\* taken, and the month of the third branch is a name
\* (each value is handed on as a parameter, and so written once)
DateOf(date_str) ==
    LET count(c) == Cardinality({i \in 1..Len(date_str) : date_str[i] = c})
        strptime(n, sep, named) ==
            Parsed(n[1], IF sep = " " THEN CHOOSE m \in named : TRUE ELSE n[2], n[3])
        int(ymd, sep, named) ==
            strptime([k \in 1..3 |-> Number(ymd[k])], sep, named)
        branch(parts, sep, named) ==
            IF sep = "" \/ (sep = " " /\ named = {}) THEN -1
            ELSE int(IF sep = " "
                     THEN <<parts[3], <<>>, SubSeq(parts[2], 1, Len(parts[2]) - 1)>>
                     ELSE IF Len(parts[1]) = 4 THEN <<parts[1], parts[2], parts[3]>>
                     ELSE <<parts[3], parts[2], parts[1]>>,
                     sep, named)
        month(parts, sep) ==
            branch(parts, sep, {m \in 1..12 : MONTH_NAMES[m] = lower(parts[1])})
        split(sep) == month(Split(date_str, sep), sep)
    IN split(IF count("-") = 2 THEN "-"
             ELSE IF count("/") = 2 THEN "/"
             ELSE IF count(",") >= 1 THEN " " ELSE "")

\* the loop of extract_date over the patterns: the date of the first
\* pattern that is found and parses, -1 when the loop ends without one
FoundDate(s) ==
    LET group(m) == DateOf(SubSeq(s, m[1], m[2]))
        search(found) == IF found = {} THEN -1 ELSE group(Leftmost(found))
        first(tried) == IF tried[1] # -1 THEN tried[1]
                        ELSE IF tried[2] # -1 THEN tried[2]
                        ELSE tried[3]
        each(date_patterns) == first([p \in 1..3 |-> search(date_patterns[p])])
    IN each(<<YearFirst(s), YearLast(s), MonthFirst(s)>>)

\* extract_date: the sort key of a record
extract_date(result) ==
    LET else_default(found) == IF found # -1 THEN found ELSE DEFAULT_DATE
    IN else_default(FoundDate(result.snippet))

\* the key order of list.sort(key = extract_date, reverse = reverse)
DateBefore(x, y, reverse) ==
    LET before(key) == IF reverse THEN key[y] < key[x] ELSE key[x] < key[y]
    IN before([r \in {x, y} |-> extract_date(r)])

\* x put into a sorted list, behind the records that do not sort after it
InsertByDate(acc, x, reverse) ==
    LET later == {i \in 1..Len(acc) : DateBefore(x, acc[i], reverse)} IN
    IF later = {}
    THEN Append(acc, x)
    ELSE LET i == CHOOSE k \in later : \A j \in later : k <= j
         IN SubSeq(acc, 1, i - 1) \o <<x>> \o SubSeq(acc, i, Len(acc))

\* list.sort by date: a stable sort
RECURSIVE SortByDate(_, _)
SortByDate(results, reverse) ==
    IF results = <<>> THEN <<>>
    ELSE InsertByDate(SortByDate(SubSeq(results, 1, Len(results) - 1), reverse),
                      results[Len(results)], reverse)

\* filter_and_sort_results, on a copy of the list
filter_and_sort_results(results, filters, sort_by, reverse) ==
    LET f1 == IF Truthy(filters, "domain")
              THEN LET domain == lower(filters.v.domain)
                       InDomain(r) == Contains(lower(r.url), domain)
                   IN SelectSeq(results, InDomain)
              ELSE results
        f2 == IF Truthy(filters, "keywords")
              THEN LET keywords == [i \in 1..Len(filters.v.keywords) |->
                                       lower(filters.v.keywords[i])]
                       HasAll(r) == \A i \in 1..Len(keywords) :
                                        Mentioned(r, keywords[i])
                   IN SelectSeq(f1, HasAll)
              ELSE f1
        f3 == IF Truthy(filters, "exclude_keywords")
              THEN LET exclude_keywords ==
                           [i \in 1..Len(filters.v.exclude_keywords) |->
                               lower(filters.v.exclude_keywords[i])]
                       HasNone(r) == ~\E i \in 1..Len(exclude_keywords) :
                                         Mentioned(r, exclude_keywords[i])
                   IN SelectSeq(f2, HasNone)
              ELSE f2
    IN CASE sort_by = "title" -> SortByTitle(f3, reverse)
         [] sort_by = "date" -> SortByDate(f3, reverse)
         [] OTHER -> f3

\* urlparse(url).netloc of a str: the scheme goes up to the first ":" when
\* only scheme characters precede it, the network location is what follows
\* "//" up to the next "/", "?" or "#"
SchemeChar(c) ==
    \/ \E i \in 1..26 : c \in {UPPERCASE[i], LOWERCASE[i]}
    \/ c \in {"0", "1", "2", "3", "4", "5", "6", "7", "8", "9", "+", "-", "."}

AfterScheme(url) ==
    LET colons == {i \in 1..Len(url) : url[i] = ":"}
        i == CHOOSE c \in colons : \A d \in colons : c <= d
    IN IF /\ colons # {}
          /\ i > 1
          /\ \E k \in 1..26 : url[1] \in {UPPERCASE[k], LOWERCASE[k]}
          /\ \A j \in 1..(i - 1) : SchemeChar(url[j])
       THEN SubSeq(url, i + 1, Len(url))
       ELSE url

netloc(url) ==
    LET rest == AfterScheme(url)
        ends == {i \in 3..Len(rest) : rest[i] \in {"/", "?", "#"}}
        stop == IF ends = {} THEN Len(rest) + 1
                ELSE CHOOSE e \in ends : \A d \in ends : e <= d
    IN IF StartsWith(rest, <<"/", "/">>) THEN SubSeq(rest, 3, stop - 1) ELSE <<>>

\* urlsplit raises ValueError("Invalid IPv6 URL") when the network location
\* has one of "[" and "]" without the other
InvalidNetloc(url) ==
    LET n == netloc(url)
        has(c) == \E i \in 1..Len(n) : n[i] = c
    IN has("[") # has("]")

\* the (item, count) pairs of a dict that counts the items of a list, in the
\* order the items were first met
RECURSIVE Tally(_)
Tally(items) ==
    IF items = <<>> THEN <<>>
    ELSE LET front == Tally(SubSeq(items, 1, Len(items) - 1))
             last == items[Len(items)]
         IN IF \E i \in 1..Len(front) : front[i][1] = last
            THEN [i \in 1..Len(front) |->
                     IF front[i][1] = last THEN <<last, front[i][2] + 1>>
                     ELSE front[i]]
            ELSE Append(front, <<last, 1>>)

\* sorted(pairs, key=count, reverse=True): a stable sort, so pairs of equal
\* count keep their order
RECURSIVE ByCount(_)
ByCount(pairs) ==
    IF pairs = <<>> THEN <<>>
    ELSE LET front == ByCount(SubSeq(pairs, 1, Len(pairs) - 1))
             last == pairs[Len(pairs)]
             n == Cardinality({i \in 1..Len(front) : front[i][2] >= last[2]})
         IN SubSeq(front, 1, n) \o <<last>> \o SubSeq(front, n + 1, Len(front))

\* " ".join(parts)
RECURSIVE Join_Space(_)
Join_Space(parts) ==
    IF parts = <<>> THEN <<>>
    ELSE IF Len(parts) = 1 THEN parts[1]
    ELSE parts[1] \o <<" ">> \o Join_Space(Tail(parts))

\* a character of \w
WordChar(c) ==
    \/ \E i \in 1..26 : c \in {UPPERCASE[i], LOWERCASE[i]}
    \/ c \in {"0", "1", "2", "3", "4", "5", "6", "7", "8", "9", "_"}

\* the maximal runs of \w characters of a text, left to right
RECURSIVE Runs(_)
Runs(text) ==
    IF text = <<>> THEN <<>>
    ELSE IF ~WordChar(text[1]) THEN Runs(Tail(text))
    ELSE LET breaks == {i \in 1..Len(text) : ~WordChar(text[i])}
             n == IF breaks = {} THEN Len(text)
                  ELSE (CHOOSE b \in breaks : \A d \in breaks : b <= d) - 1
         IN <<SubSeq(text, 1, n)>> \o Runs(SubSeq(text, n + 1, Len(text)))

\* re.findall(r'\b[a-z]{3,}\b', text): with a word boundary on both sides a
\* match is a whole run of \w characters, of three or more lower-case letters
FindWords(text) ==
    LET IsWord(run) == /\ Len(run) >= 3
                       /\ \A i \in 1..Len(run) : \E k \in 1..26 : run[i] = LOWERCASE[k]
    IN SelectSeq(Runs(text), IsWord)

\* the stop words of three letters or more (a match is never shorter)
stop_words ==
    {<<"t", "h", "e">>, <<"a", "n", "d">>, <<"b", "u", "t">>, <<"t", "h", "e", "n">>,
     <<"e", "l", "s", "e">>, <<"w", "h", "e", "n">>, <<"f", "r", "o", "m">>,
     <<"a", "b", "o", "u", "t">>, <<"f", "o", "r">>, <<"w", "i", "t", "h">>,
     <<"a", "r", "e">>, <<"w", "a", "s">>, <<"w", "e", "r", "e">>, <<"b", "e", "e", "n">>,
     <<"b", "e", "i", "n", "g">>, <<"h", "a", "v", "e">>, <<"h", "a", "s">>,
     <<"h", "a", "d">>, <<"d", "o", "e", "s">>, <<"d", "i", "d">>, <<"c", "a", "n">>,
     <<"c", "o", "u", "l", "d">>, <<"w", "i", "l", "l">>, <<"w", "o", "u", "l", "d">>,
     <<"s", "h", "a", "l", "l">>, <<"s", "h", "o", "u", "l", "d">>, <<"m", "a", "y">>,
     <<"m", "i", "g", "h", "t">>, <<"m", "u", "s", "t">>, <<"t", "h", "i", "s">>,
     <<"t", "h", "a", "t">>, <<"t", "h", "e", "s", "e">>, <<"t", "h", "o", "s", "e">>,
     <<"y", "o", "u">>, <<"s", "h", "e">>, <<"t", "h", "e", "y">>, <<"h", "i", "m">>,
     <<"h", "e", "r">>, <<"t", "h", "e", "m">>}

\* analyze_search_results: the domain and keyword counts of a list of
\* records (the average lengths and the summary text are left out of the
\* record); an exception raised on the way is caught and turned into an
\* error result
analyze_search_results(results) ==
    IF results = <<>>
    THEN [status |-> "error", message |-> "no results to analyze"]
    ELSE LET with_url == SelectSeq(results, LAMBDA r : ~Falsy(r.url))
             domains == Tally([i \in 1..Len(with_url) |-> netloc(with_url[i].url)])
             top_domains == ByCount(domains)
             all_text == lower(Join_Space([i \in 1..Len(results) |->
                             results[i].title \o <<" ">> \o results[i].snippet]))
             words == SelectSeq(FindWords(all_text), LAMBDA w : w \notin stop_words)
             top_keywords == Slice(ByCount(Tally(words)), 10)
         IN IF \E i \in 1..Len(with_url) : InvalidNetloc(with_url[i].url)
            THEN [status |-> "error", message |-> "analysis failed: Invalid IPv6 URL"]
            ELSE [status |-> "success", result_count |-> Len(results),
                  top_domains |-> Slice(top_domains, 5),
                  top_keywords |-> top_keywords]

\* advanced_search once search_duckduckgo has returned
AfterAdvanced(rec, sresp) ==
    IF sresp.status # "success"
    THEN [rec EXCEPT !.pc = "done", !.resp = sresp]
    ELSE LET results == sresp.results
             a == rec.args
             filtered_results ==
                 Slice(filter_and_sort_results(results, a.filters, a.sort_by,
                                               a.reverse_sort),
                       a.limit)
             response == [status |-> "success", query |-> rec.query,
                          original_count |-> Len(results),
                          filtered_count |-> Len(filtered_results),
                          results |-> filtered_results,
                          filters_applied |-> a.filters,
                          sort_by |-> a.sort_by,
                          reverse_sort |-> a.reverse_sort]
             MayDrop(k) == Truthy(a.filters, k)
         IN [rec EXCEPT !.pc = "done", !.resp =
                IF filtered_results = <<>> /\ a.filters.given
                       /\ DOMAIN a.filters.v # {}
                THEN Merge(response,
                           [message |-> "no result passes the filters",
                            suggestions |->
                                SelectSeq(<<"domain", "keywords",
                                            "exclude_keywords">>, MayDrop)])
                ELSE response]

\* summarize_search_results once search_duckduckgo has returned
AfterSummarize(rec, sresp) ==
    IF sresp.status # "success"
    THEN [rec EXCEPT !.pc = "done", !.resp = sresp]
    ELSE LET results == sresp.results
         IN [rec EXCEPT !.pc = "done", !.resp =
                [status |-> "success", query |-> rec.query,
                 result_count |-> Len(results),
                 analysis |-> analyze_search_results(results),
                 results |-> Slice(results, 3)]]

\* the caller of search_duckduckgo resumed with its response; found is
\* history: the number of records in a success response, -1 otherwise
Returned(rec, g, sresp, list) ==
    LET got == [rec EXCEPT !.found = IF sresp.status = "success"
                                     THEN Len(sresp.results) ELSE -1]
    IN CASE rec.op = "search_and_fetch" -> AfterSearch(got, g, sresp, list)
         [] rec.op = "advanced_search" ->
               [AfterAdvanced(got, sresp) EXCEPT !.list = list]
         [] rec.op = "summarize_search_results" ->
               [AfterSummarize(got, sresp) EXCEPT !.list = list]
         [] OTHER -> [got EXCEPT !.pc = "done", !.list = list, !.resp = sresp]

\* the tool search
search(t, query, limit, region) ==
    /\ Free(t)
    /\ ncalls' = ncalls + 1
    /\ Static
    /\ IF IsBlank(query)
       THEN /\ UNCHANGED <<search_cache, url_cache, search_cache_times,
                           cache_stats, request_semaphore, heap>>
            /\ Step(t, [IdleTask EXCEPT !.op = "search", !.pc = "done",
                               !.query = query,
                               !.resp = [status |-> "error",
                                         message |-> "enter a valid query"]],
                    NoLookups)
       ELSE LET lim == ClampLimit(limit, 5)
                reg == ClampRegion(region)
                r == SearchStart(Globals, query, lim, reg, CONFIG.SAFE_SEARCH,
                                 CONFIG, now)
                look == <<SearchLookupEvent(Globals, r, QueryTtl(query, CONFIG), now)>>
                rec == [IdleTask EXCEPT !.op = "search", !.pc = r.pc,
                           !.query = query, !.limit = lim, !.region = reg,
                           !.key = r.key,
                           !.nreq = IF r.pc = "sd_net" THEN 1 ELSE 0]
            IN /\ SetGlobals(r.g)
               /\ Step(t, IF r.pc = "returned"
                           THEN Returned(rec, r.g, r.resp, r.list) ELSE rec,
                       look)
               /\ SetHeap(r.g.heap)

\* the tool search_and_fetch, up to the first suspension
search_and_fetch(t, query, limit, content_format, region) ==
    /\ Free(t)
    /\ ncalls' = ncalls + 1
    /\ Static
    /\ IF IsBlank(query)
       THEN /\ UNCHANGED <<search_cache, url_cache, search_cache_times,
                           cache_stats, request_semaphore, heap>>
            /\ Step(t, [IdleTask EXCEPT !.op = "search_and_fetch",
                               !.pc = "done", !.query = query,
                               !.resp = [status |-> "error",
                                         message |-> "enter a valid query",
                                         suggestion |-> "the query cannot be empty"]],
                    NoLookups)
       ELSE LET lim == ClampLimit(limit, 3)
                fmt == IF content_format \in VALID_FORMATS
                       THEN content_format ELSE FMT_TEXT
                reg == ClampRegion(region)
                r == SearchStart(Globals, query, lim, reg, CONFIG.SAFE_SEARCH,
                                 CONFIG, now)
                look == <<SearchLookupEvent(Globals, r, QueryTtl(query, CONFIG), now)>>
                rec == [IdleTask EXCEPT !.op = "search_and_fetch", !.pc = r.pc,
                           !.query = query, !.limit = lim, !.region = reg,
                           !.fmt = fmt, !.key = r.key,
                           !.nreq = IF r.pc = "sd_net" THEN 1 ELSE 0]
            IN /\ SetGlobals(r.g)
               /\ Step(t, IF r.pc = "returned"
                           THEN Returned(rec, r.g, r.resp, r.list) ELSE rec,
                       look)
               /\ SetHeap(r.g.heap)

\* the tool advanced_search, up to the first suspension
advanced_search(t, query, limit, region, filters, sort_by, reverse_sort) ==
    /\ Free(t)
    /\ ncalls' = ncalls + 1
    /\ Static
    /\ IF Falsy(query)
       THEN /\ UNCHANGED <<search_cache, url_cache, search_cache_times,
                           cache_stats, request_semaphore, heap>>
            /\ Step(t, [IdleTask EXCEPT !.op = "advanced_search", !.pc = "done",
                               !.query = query,
                               !.resp = [status |-> "error",
                                         message |-> "enter a valid query"]],
                    NoLookups)
       ELSE LET lim == IF limit * 2 > 20 THEN limit * 2 ELSE 20
                reg == IF Falsy(region) THEN CONFIG.REGION ELSE region
                r == SearchStart(Globals, query, lim, reg, CONFIG.SAFE_SEARCH,
                                 CONFIG, now)
                look == <<SearchLookupEvent(Globals, r, QueryTtl(query, CONFIG), now)>>
                rec == [IdleTask EXCEPT !.op = "advanced_search", !.pc = r.pc,
                           !.query = query, !.limit = lim, !.region = reg,
                           !.key = r.key,
                           !.nreq = IF r.pc = "sd_net" THEN 1 ELSE 0,
                           !.args = [limit |-> limit, filters |-> filters,
                                     sort_by |-> sort_by,
                                     reverse_sort |-> reverse_sort]]
            IN /\ SetGlobals(r.g)
               /\ Step(t, IF r.pc = "returned"
                           THEN Returned(rec, r.g, r.resp, r.list) ELSE rec,
                       look)
               /\ SetHeap(r.g.heap)

\* the tool summarize_search_results, up to the first suspension
summarize_search_results(t, query, limit, region) ==
    /\ Free(t)
    /\ ncalls' = ncalls + 1
    /\ Static
    /\ IF Falsy(query)
       THEN /\ UNCHANGED <<search_cache, url_cache, search_cache_times,
                           cache_stats, request_semaphore, heap>>
            /\ Step(t, [IdleTask EXCEPT !.op = "summarize_search_results",
                               !.pc = "done", !.query = query,
                               !.resp = [status |-> "error",
                                         message |-> "enter a valid query"]],
                    NoLookups)
       ELSE LET reg == IF Falsy(region) THEN CONFIG.REGION ELSE region
                r == SearchStart(Globals, query, limit, reg, CONFIG.SAFE_SEARCH,
                                 CONFIG, now)
                look == <<SearchLookupEvent(Globals, r, QueryTtl(query, CONFIG), now)>>
                rec == [IdleTask EXCEPT !.op = "summarize_search_results",
                           !.pc = r.pc, !.query = query, !.limit = limit,
                           !.region = reg, !.key = r.key,
                           !.nreq = IF r.pc = "sd_net" THEN 1 ELSE 0,
                           !.args = [NoArgs EXCEPT !.limit = limit]]
            IN /\ SetGlobals(r.g)
               /\ Step(t, IF r.pc = "returned"
                           THEN Returned(rec, r.g, r.resp, r.list) ELSE rec,
                       look)
               /\ SetHeap(r.g.heap)

\* search_duckduckgo resumed with a permit: the backend request is issued
SearchAcquire(t) ==
    /\ task[t].pc = "sd_wait"
    /\ request_semaphore > 0
    /\ request_semaphore' = request_semaphore - 1
    /\ UNCHANGED <<now, gate, CONFIG, search_cache, url_cache,
                   search_cache_times, cache_stats, heap, ncalls>>
    /\ Step(t, [task[t] EXCEPT !.pc = "sd_net", !.nreq = @ + 1], NoLookups)

\* search_duckduckgo resumed by the outcome of the backend request, and its
\* caller resumed with the response
SearchBackend(t, outcome) ==
    /\ task[t].pc = "sd_net"
    /\ LET r == SearchResponse(Globals, task[t].key, task[t].limit, outcome, now)
       IN /\ SetGlobals(r.g)
          /\ Step(t, Returned([task[t] EXCEPT !.outs = Append(@, outcome)],
                               r.g, r.resp, r.list), NoLookups)
          /\ SetHeap(r.g.heap)
    /\ UNCHANGED <<now, gate, CONFIG, ncalls>>

\* the first run of the coroutines gather has scheduled, in list order
\* (each intermediate value is bound through a one-element set, which has
\* it computed once)
RECURSIVE StartAll(_, _, _, _, _)
StartAll(acc, kids, i, cfg, t) ==
    IF i > Len(kids) THEN acc
    ELSE CHOOSE out \in
             {StartAll(next, kids, i + 1, cfg, t) :
                 next \in {[g |-> r.g, kids |-> Append(a.kids, r.f),
                            lookups |-> a.lookups \o UrlLookups(a.g, r, t)] :
                               <<a, r>> \in {<<a, FetchUrlStart(a.g, kids[i], cfg, t)>> :
                                                 a \in {acc}}}} : TRUE

\* search_and_fetch suspended in gather: every fetch_url runs to its first
\* suspension
GatherStart(t) ==
    /\ task[t].pc = "gather"
    /\ \E r \in {StartAll([g |-> Globals, kids |-> <<>>, lookups |-> NoLookups],
                           task[t].kids, 1, CONFIG, now)} :
          /\ SetGlobals(r.g)
          /\ Step(t, [task[t] EXCEPT !.pc = "join", !.kids = r.kids], r.lookups)
          /\ SetHeap(r.g.heap)
    /\ UNCHANGED <<now, gate, CONFIG, ncalls>>

\* the tool fetch, up to the first suspension of fetch_url
fetch(t, url, content_format) ==
    /\ Free(t)
    /\ ncalls' = ncalls + 1
    /\ Static
    /\ IF IsBlank(url)
       THEN /\ UNCHANGED <<search_cache, url_cache, search_cache_times,
                           cache_stats, request_semaphore, heap>>
            /\ Step(t, [IdleTask EXCEPT !.op = "fetch", !.pc = "done",
                               !.resp = [status |-> "error",
                                         message |-> <<"enter a valid url">>]],
                    NoLookups)
       ELSE LET fmt == IF content_format \in VALID_FORMATS
                       THEN content_format ELSE FMT_MARKDOWN
                r == FetchUrlStart(Globals, NewFetch(url, fmt), CONFIG, now)
            IN /\ SetGlobals(r.g)
               /\ Step(t, [IdleTask EXCEPT !.op = "fetch",
                              !.pc = IF r.f.pc = "done" THEN "done" ELSE "fetching",
                              !.fmt = fmt, !.kids = <<r.f>>,
                              !.resp = r.f.result],
                       UrlLookups(Globals, r, now))
               /\ SetHeap(r.g.heap)

\* fetch_url called on its own, up to its first suspension; query keeps the
\* url argument as given
fetch_url(t, url, content_format, max_length) ==
    /\ Free(t)
    /\ ncalls' = ncalls + 1
    /\ Static
    /\ LET r == FetchUrlStart(Globals,
                              [NewFetch(url, content_format)
                                   EXCEPT !.max_length = max_length],
                              CONFIG, now)
       IN /\ SetGlobals(r.g)
          /\ Step(t, [IdleTask EXCEPT !.op = "fetch_url",
                         !.pc = IF r.f.pc = "done" THEN "done" ELSE "fetching",
                         !.query = url, !.fmt = content_format,
                         !.kids = <<r.f>>, !.resp = r.f.result],
                  UrlLookups(Globals, r, now))
          /\ SetHeap(r.g.heap)

\* a fetch_url coroutine has run; fetch returns what its fetch_url returns
Resumed(rec, i, f) ==
    LET r == [rec EXCEPT !.kids[i] = f] IN
    IF rec.op \in {"fetch", "fetch_url"} /\ f.pc = "done"
    THEN [r EXCEPT !.pc = "done", !.resp = f.result]
    ELSE r

\* a waiting fetch_url gets a permit and issues the primary request
FetchAcquire(t, i) ==
    /\ task[t].pc \in {"fetching", "join"}
    /\ i \in 1..Len(task[t].kids)
    /\ task[t].kids[i].pc = "wait"
    /\ request_semaphore > 0
    /\ LET r == FetchUrlAcquire(Globals, task[t].kids[i])
       IN /\ SetGlobals(r.g)
          /\ Step(t, Resumed(task[t], i, r.f), NoLookups)
          /\ SetHeap(r.g.heap)
    /\ UNCHANGED <<now, gate, CONFIG, ncalls>>

\* the request a fetch_url awaits ends with `outcome`
FetchResponse(t, i, outcome) ==
    /\ task[t].pc \in {"fetching", "join"}
    /\ i \in 1..Len(task[t].kids)
    /\ task[t].kids[i].pc \in {"net", "fallback"}
    /\ LET r == FetchUrlResponse(Globals, task[t].kids[i], outcome, now)
       IN /\ SetGlobals(r.g)
          /\ Step(t, Resumed(task[t], i, r.f), NoLookups)
          /\ SetHeap(r.g.heap)
    /\ UNCHANGED <<now, gate, CONFIG, ncalls>>

\* faulty variant: the contents are paired with the results in reverse
MergeContents_Reversed(results, contents) ==
    [i \in 1..Len(results) |->
        IF i <= Len(contents)
        THEN Merge(results[i], contents[Len(contents) + 1 - i].result)
        ELSE results[i]]

\* results[i] = {**item, **content} over zip(results, contents)
MergeContents(results, contents) ==
    [i \in 1..Len(results) |->
        IF i <= Len(contents) THEN Merge(results[i], contents[i].result)
        ELSE results[i]]

\* gather has every result: search_and_fetch writes the merged records into
\* the results list and responds
Join(t) ==
    /\ task[t].pc = "join"
    /\ \A i \in 1..Len(task[t].kids) : task[t].kids[i].pc = "done"
    /\ LET merged == MergeContents(heap[task[t].list], task[t].kids)
       IN /\ UNCHANGED <<now, gate, CONFIG, search_cache, url_cache,
                         search_cache_times, cache_stats, request_semaphore,
                         ncalls>>
          /\ Step(t, [task[t] EXCEPT !.pc = "done",
                         !.resp = [status |-> "success", query |-> task[t].query,
                                   total |-> Len(merged), format |-> task[t].fmt,
                                   results |-> merged,
                                   suggestion |-> task[t].suggestion]],
                  NoLookups)
          /\ SetHeap([heap EXCEPT ![task[t].list] = merged])

----------------------------------------------------------------------------
(* Administrative tools and the clock *)

\* the tool clear_cache
clear_cache ==
    /\ ncalls < MaxCalls
    /\ ncalls' = ncalls + 1
    /\ search_cache' = TTLClear(search_cache)
    /\ url_cache' = TTLClear(url_cache)
    /\ cache_stats' = [hits |-> 0, misses |-> 0]
    /\ ev' = [NoEvent EXCEPT !.admin = [op |-> "clear_cache", args |-> <<>>,
                                        status |-> "success"]]
    /\ returned' = EmptyDict
    /\ used' = [search |-> <<>>, url |-> <<>>]
    /\ UNCHANGED <<now, gate, CONFIG, search_cache_times, request_semaphore,
                   task>>
    /\ SetHeap(heap)

\* faulty variant: a set_search_preferences that zeroes the counters
\* whatever its arguments are
set_search_preferences_AlwaysReset(region, safe_search, max_results, cache_ttl) ==
    LET region_ok == region.typed /\ Len(region.v) <= 5
        c1 == IF region.given /\ region_ok
              THEN [CONFIG EXCEPT !.REGION = lower(region.v)] ELSE CONFIG
        stop1 == region.given /\ ~region_ok
        c2 == IF ~stop1 /\ safe_search.given
              THEN [c1 EXCEPT !.SAFE_SEARCH = safe_search.v] ELSE c1
        max_ok == max_results.typed /\ 1 <= max_results.v /\ max_results.v <= 50
        c3 == IF ~stop1 /\ max_results.given /\ max_ok
              THEN [c2 EXCEPT !.MAX_RESULTS = max_results.v] ELSE c2
        stop2 == stop1 \/ (max_results.given /\ ~max_ok)
        ttl_ok == cache_ttl.typed /\ cache_ttl.v >= 0
        renew == ~stop2 /\ cache_ttl.given /\ ttl_ok
        c4 == IF renew THEN [c3 EXCEPT !.CACHE_TTL = cache_ttl.v] ELSE c3
    IN /\ ncalls < MaxCalls
       /\ ncalls' = ncalls + 1
       /\ CONFIG' = c4
       /\ IF renew
          THEN /\ search_cache' = TTLCache(CACHE_MAX_SIZE, c4.CACHE_TTL)
               /\ url_cache' = TTLCache(CACHE_MAX_SIZE, c4.CACHE_TTL)
               /\ cache_stats' = [hits |-> 0, misses |-> 0]
               /\ returned' = EmptyDict
               /\ used' = [search |-> <<>>, url |-> <<>>]
          ELSE /\ cache_stats' = [hits |-> 0, misses |-> 0]
               /\ UNCHANGED <<search_cache, url_cache, returned, used>>
       /\ ev' = [NoEvent EXCEPT !.admin =
                    [op |-> "set_search_preferences",
                     args |-> <<region, safe_search, max_results, cache_ttl>>,
                     status |-> IF stop2 \/ (cache_ttl.given /\ ~ttl_ok)
                                THEN "error" ELSE "success"]]
       /\ UNCHANGED <<now, gate, search_cache_times, request_semaphore, task>>
       /\ SetHeap(heap)

\* faulty variant: a set_search_preferences that sets CACHE_TTL and keeps
\* the caches it has
set_search_preferences_KeepCaches(region, safe_search, max_results, cache_ttl) ==
    LET region_ok == region.typed /\ Len(region.v) <= 5
        c1 == IF region.given /\ region_ok
              THEN [CONFIG EXCEPT !.REGION = lower(region.v)] ELSE CONFIG
        stop1 == region.given /\ ~region_ok
        c2 == IF ~stop1 /\ safe_search.given
              THEN [c1 EXCEPT !.SAFE_SEARCH = safe_search.v] ELSE c1
        max_ok == max_results.typed /\ 1 <= max_results.v /\ max_results.v <= 50
        c3 == IF ~stop1 /\ max_results.given /\ max_ok
              THEN [c2 EXCEPT !.MAX_RESULTS = max_results.v] ELSE c2
        stop2 == stop1 \/ (max_results.given /\ ~max_ok)
        ttl_ok == cache_ttl.typed /\ cache_ttl.v >= 0
        renew == ~stop2 /\ cache_ttl.given /\ ttl_ok
        c4 == IF renew THEN [c3 EXCEPT !.CACHE_TTL = cache_ttl.v] ELSE c3
    IN /\ ncalls < MaxCalls
       /\ ncalls' = ncalls + 1
       /\ CONFIG' = c4
       /\ IF renew
          THEN /\ cache_stats' = [hits |-> 0, misses |-> 0]
               /\ UNCHANGED <<search_cache, url_cache, returned, used>>
          ELSE UNCHANGED <<search_cache, url_cache, cache_stats, returned, used>>
       /\ ev' = [NoEvent EXCEPT !.admin =
                    [op |-> "set_search_preferences",
                     args |-> <<region, safe_search, max_results, cache_ttl>>,
                     status |-> IF stop2 \/ (cache_ttl.given /\ ~ttl_ok)
                                THEN "error" ELSE "success"]]
       /\ UNCHANGED <<now, gate, search_cache_times, request_semaphore, task>>
       /\ SetHeap(heap)

\* the tool set_search_preferences: the arguments are applied in order up
\* to the first invalid one
set_search_preferences(region, safe_search, max_results, cache_ttl) ==
    LET region_ok == region.typed /\ Len(region.v) <= 5
        c1 == IF region.given /\ region_ok
              THEN [CONFIG EXCEPT !.REGION = lower(region.v)] ELSE CONFIG
        stop1 == region.given /\ ~region_ok
        c2 == IF ~stop1 /\ safe_search.given
              THEN [c1 EXCEPT !.SAFE_SEARCH = safe_search.v] ELSE c1
        max_ok == max_results.typed /\ 1 <= max_results.v /\ max_results.v <= 50
        c3 == IF ~stop1 /\ max_results.given /\ max_ok
              THEN [c2 EXCEPT !.MAX_RESULTS = max_results.v] ELSE c2
        stop2 == stop1 \/ (max_results.given /\ ~max_ok)
        ttl_ok == cache_ttl.typed /\ cache_ttl.v >= 0
        renew == ~stop2 /\ cache_ttl.given /\ ttl_ok
        c4 == IF renew THEN [c3 EXCEPT !.CACHE_TTL = cache_ttl.v] ELSE c3
    IN /\ ncalls < MaxCalls
       /\ ncalls' = ncalls + 1
       /\ CONFIG' = c4
       /\ IF renew
          THEN /\ search_cache' = TTLCache(CACHE_MAX_SIZE, c4.CACHE_TTL)
               /\ url_cache' = TTLCache(CACHE_MAX_SIZE, c4.CACHE_TTL)
               /\ cache_stats' = [hits |-> 0, misses |-> 0]
               /\ returned' = EmptyDict
               /\ used' = [search |-> <<>>, url |-> <<>>]
          ELSE UNCHANGED <<search_cache, url_cache, cache_stats, returned, used>>
       /\ ev' = [NoEvent EXCEPT !.admin =
                    [op |-> "set_search_preferences",
                     args |-> <<region, safe_search, max_results, cache_ttl>>,
                     status |-> IF stop2 \/ (cache_ttl.given /\ ~ttl_ok)
                                THEN "error" ELSE "success"]]
       /\ UNCHANGED <<now, gate, search_cache_times, request_semaphore, task>>
       /\ SetHeap(heap)

\* a call of a function of the module that touches no state of the module:
\* the event keeps the arguments, the list passed in as the call leaves it,
\* and what the call returns
Called(op, args, input_after, resp) ==
    /\ ev' = [NoEvent EXCEPT !.done =
                 {[t |-> 0, op |-> op, key |-> <<>>, kids |-> <<>>, args |-> args,
                   input_after |-> input_after, resp |-> resp]}]
    /\ UNCHANGED <<now, gate, CONFIG, search_cache, url_cache, search_cache_times,
                   cache_stats, request_semaphore, heap, task, ncalls, returned,
                   used>>

\* filter_and_sort_results called on a list: it works on results.copy()
CallFilterAndSort(results, filters, sort_by, reverse) ==
    Called("filter_and_sort_results",
           [results |-> results, filters |-> filters, sort_by |-> sort_by,
            reverse |-> reverse],
           results,
           filter_and_sort_results(results, filters, sort_by, reverse))

\* analyze_search_results called on a list, which it only reads
CallAnalyze(results) ==
    Called("analyze_search_results", [results |-> results], results,
           analyze_search_results(results))

\* time passes
Tick ==
    /\ now < MaxTime
    /\ now' = now + 1
    /\ ev' = NoEvent
    /\ UNCHANGED <<gate, CONFIG, search_cache, url_cache, search_cache_times,
                   cache_stats, request_semaphore, heap, task, ncalls,
                   returned, used>>

----------------------------------------------------------------------------
(* Inputs and the environment *)

Q_NEWS == <<"N", "e", "w", "s">>
Q_DOCS == <<"d", "o", "c", "s">>
Q_PLAIN == <<"a", "i">>
Q_EMPTY == <<>>
Q_LATEST_AI_NEWS ==
    <<"l", "a", "t", "e", "s", "t", " ", "A", "I", " ", "n", "e", "w", "s">>
Q_PYTHON_TUTORIAL_DOCS ==
    <<"p", "y", "t", "h", "o", "n", " ", "t", "u", "t", "o", "r", "i", "a",
      "l", " ", "d", "o", "c", "s">>
Q_HELLO_WORLD == <<"h", "e", "l", "l", "o", " ", "w", "o", "r", "l", "d">>
Q_UPPER_DOCS == <<"D", "O", "C", "S">>
Q_GUIDE_TO_NEWS ==
    <<"G", "u", "i", "d", "e", " ", "t", "o", " ", "N", "e", "w", "s">>
Q_CJK_NEWS == <<"U+4ECA", "U+65E5">>
Q_CJK_DOCS == <<"U+6559", "U+7A0B">>
Q_CJK_BOTH == <<"U+6307", "U+5357", " ", "U+6700", "U+65B0">>
ClassQueries ==
    {Q_NEWS, Q_DOCS, Q_PLAIN, Q_LATEST_AI_NEWS, Q_PYTHON_TUTORIAL_DOCS,
     Q_HELLO_WORLD, Q_UPPER_DOCS, Q_GUIDE_TO_NEWS, Q_CJK_NEWS, Q_CJK_DOCS,
     Q_CJK_BOTH}
Q_A == <<"a">>
Q_A_COLON_1 == <<"a", ":", "1">>
Q_SPACE == <<" ">>
REGION_2_TW == <<"2", ":", "t", "w">>
TW == <<"t", "w">>

URL_A == <<"h", "t", "t", "p", "s", ":", "/", "/", "a">>
URL_B == <<"b">>
URL_A_BARE == <<"a">>
URL_EMPTY == <<>>

Formats == {FMT_TEXT, FMT_MARKDOWN, FMT_HTML}

NODE_A == [title |-> <<"A">>, url |-> URL_A,
           snippet |-> <<"a", "b", "o", "u", "t", " ", "a">>]
NODE_B == [title |-> <<"B">>, url |-> URL_B,
           snippet |-> <<"a", "b", "o", "u", "t", " ", "b">>]

\* outcomes of the backend request
SearchOk(nodes) == [kind |-> "ok", nodes |-> nodes, suggestion |-> "None"]
\* a result page of n result nodes
Page(n) ==
    [i \in 1..n |-> [title |-> <<"T">> \o IntStr(i),
                     url |-> URL_A \o <<"/">> \o IntStr(i),
                     snippet |-> <<"n", "o", " ">> \o IntStr(i)]]

SearchDidYouMean(nodes) ==
    [kind |-> "ok", nodes |-> nodes, suggestion |-> "did you mean"]
SearchFailures ==
    {[kind |-> "timeout"], [kind |-> "error"], [kind |-> "http", code |-> 503]}

\* outcomes of a content request
\* a page whose extractions all have n characters
Page_Of(n) ==
    [markdown |-> Slice(<<"#", "m", "d">>, n), html |-> Slice(<<"<", "p", ">">>, n),
     text |-> Slice(<<"t", "x", "t">>, n), plain |-> Slice(<<"r", "a", "w">>, n)]

FetchOk == [kind |-> "ok", code |-> 200, page |-> Page_Of(3)]
HttpError(code) == [kind |-> "http", code |-> code]
FetchOutcomes == {FetchOk, [kind |-> "timeout"], [kind |-> "error"], HttpError(404)}
HttpCodes == {403, 404, 418, 500, 503}
AllFetchOutcomes == FetchOutcomes \cup {HttpError(c) : c \in HttpCodes}

----------------------------------------------------------------------------
(* The specifications *)

\* the state after the module is loaded, with USE_JINA_API as configured
Loaded(use_jina_api) ==
    /\ now = 0
    /\ gate \in 1..MaxGate
    /\ CONFIG = [CACHE_TTL |-> CACHE_TTL, REGION |-> DEFAULT_REGION,
                 SAFE_SEARCH |-> DEFAULT_SAFE_SEARCH, MAX_RESULTS |-> MAX_RESULTS,
                 USE_JINA_API |-> use_jina_api]
    /\ search_cache = TTLCache(CACHE_MAX_SIZE, CACHE_TTL)
    /\ url_cache = TTLCache(CACHE_MAX_SIZE, CACHE_TTL)
    /\ search_cache_times = EmptyDict
    /\ cache_stats = [hits |-> 0, misses |-> 0]
    /\ request_semaphore = gate
    /\ heap = <<>>
    /\ task = [t \in Tasks |-> IdleTask]
    /\ ncalls = 0
    /\ returned = EmptyDict
    /\ used = [search |-> <<>>, url |-> <<>>]
    /\ ev = NoEvent

Init == Loaded(TRUE)

\* The concurrent system at one instant of the clock: a call that searches
\* and fans out over two results races with single fetches for the permits
Next ==
    \/ \E t \in Searchers : search(t, Q_PLAIN, 2, TW)
    \/ \E t \in Searchers : search_and_fetch(t, Q_PLAIN, 2, FMT_MARKDOWN, TW)
    \/ \E t \in Fetchers : fetch(t, URL_B, FMT_MARKDOWN)
    \/ \E t \in Tasks : SearchAcquire(t)
    \/ \E t \in Tasks, o \in {SearchOk(<<NODE_A, NODE_B>>), [kind |-> "timeout"]} :
          SearchBackend(t, o)
    \/ \E t \in Tasks : GatherStart(t)
    \/ \E t \in Tasks, i \in 1..2 : FetchAcquire(t, i)
    \/ \E t \in Tasks, i \in 1..2, o \in FetchOutcomes : FetchResponse(t, i, o)
    \/ \E t \in Tasks : Join(t)

Spec == Init /\ [][Next]_vars

\* The same calls when the event loop runs a coroutine that can go on
\* whenever there is one, and every request ends, with a response or with a
\* timeout. Progress is a step of a call in progress
Progress ==
    \/ \E t \in Tasks : SearchAcquire(t)
    \/ \E t \in Tasks, o \in {SearchOk(<<NODE_A, NODE_B>>), [kind |-> "timeout"]} :
          SearchBackend(t, o)
    \/ \E t \in Tasks : GatherStart(t)
    \/ \E t \in Tasks, i \in 1..2 : FetchAcquire(t, i)
    \/ \E t \in Tasks, i \in 1..2, o \in {FetchOk, [kind |-> "timeout"]} :
          FetchResponse(t, i, o)
    \/ \E t \in Tasks : Join(t)

NextLive ==
    \/ \E t \in Searchers : search(t, Q_PLAIN, 2, TW)
    \/ \E t \in Searchers : search_and_fetch(t, Q_PLAIN, 2, FMT_MARKDOWN, TW)
    \/ \E t \in Fetchers : fetch(t, URL_B, FMT_MARKDOWN)
    \/ Progress

Fairness == WF_vars(Progress)

SpecLive == Init /\ [][NextLive]_vars /\ Fairness

\* Single fetches of every format against every outcome of the requests
InitFetch == \E use_jina_api \in BOOLEAN : Loaded(use_jina_api)

NextFetch ==
    \/ \E t \in Tasks, u \in {URL_A, URL_B}, f \in Formats : fetch(t, u, f)
    \/ \E t \in Tasks : FetchAcquire(t, 1)
    \/ \E t \in Tasks, o \in AllFetchOutcomes : FetchResponse(t, 1, o)

SpecFetch == InitFetch /\ [][NextFetch]_vars

\* Searches of the three query classes and fetches while the clock runs,
\* with the administrative tools
NextTtl ==
    \/ \E t \in Searchers, q \in {Q_NEWS, Q_DOCS, Q_PLAIN} : search(t, q, 1, TW)
    \/ \E t \in Tasks : SearchAcquire(t)
    \/ \E t \in Tasks, o \in {SearchOk(<<NODE_A>>), [kind |-> "timeout"]} :
          SearchBackend(t, o)
    \/ \E t \in Fetchers : fetch(t, URL_B, FMT_TEXT)
    \/ \E t \in Tasks : FetchAcquire(t, 1)
    \/ \E t \in Tasks, o \in {FetchOk, [kind |-> "timeout"]} : FetchResponse(t, 1, o)
    \/ clear_cache
    \/ set_search_preferences(None, None, None, Arg(3))
    \/ Tick

SpecTtl == Init /\ [][NextTtl]_vars

\* fetch_url called with empty, bare and complete URLs
NextUrl ==
    \/ \E t \in Tasks, u \in {URL_EMPTY, URL_A_BARE, URL_A},
          f \in {FMT_TEXT, FMT_MARKDOWN} : fetch_url(t, u, f, CONTENT_LENGTH_LIMIT)
    \/ \E t \in Tasks : FetchAcquire(t, 1)
    \/ \E t \in Tasks, o \in FetchOutcomes : FetchResponse(t, 1, o)

SpecUrl == Init /\ [][NextUrl]_vars

\* More keys than a cache has room for: three queries, and two URLs in two
\* formats, read and stored at one instant of the clock
NextLru ==
    \/ \E t \in Searchers, q \in {Q_NEWS, Q_DOCS, Q_PLAIN} : search(t, q, 1, TW)
    \/ \E t \in Searchers : search_and_fetch(t, Q_PLAIN, 2, FMT_TEXT, TW)
    \/ \E t \in Fetchers, u \in {URL_A, URL_B}, f \in {FMT_TEXT, FMT_HTML} :
          fetch(t, u, f)
    \/ \E t \in Tasks : SearchAcquire(t)
    \/ \E t \in Tasks : SearchBackend(t, SearchOk(<<NODE_A, NODE_B>>))
    \/ \E t \in Tasks : GatherStart(t)
    \/ \E t \in Tasks, i \in 1..2 : FetchAcquire(t, i)
    \/ \E t \in Tasks, i \in 1..2 : FetchResponse(t, i, FetchOk)
    \/ \E t \in Tasks : Join(t)

SpecLru == Init /\ [][NextLru]_vars

\* Searches of queries of every class, in either case and script
NextClass ==
    \/ \E t \in Tasks, q \in ClassQueries : search(t, q, 1, TW)
    \/ \E t \in Tasks : SearchAcquire(t)
    \/ \E t \in Tasks : SearchBackend(t, [kind |-> "timeout"])

SpecClass == Init /\ [][NextClass]_vars

\* summarize_search_results with regions it does not validate
NextKey ==
    \/ \E t \in Tasks, q \in {Q_A, Q_A_COLON_1}, l \in 1..2,
          r \in {<<>>, TW, REGION_2_TW} :
          summarize_search_results(t, q, l, r)
    \/ \E t \in Tasks : SearchAcquire(t)
    \/ \E t \in Tasks, o \in {SearchOk(Page(2)), [kind |-> "timeout"]} :
          SearchBackend(t, o)

SpecKey == Init /\ [][NextKey]_vars

\* the four tools that search, with empty and blank queries and with
\* limits of every size
FILTER_T1 == Arg([keywords |-> <<<<"T", "1">>>>])

NextTools ==
    \/ \E t \in Tasks, q \in {Q_EMPTY, Q_SPACE, Q_PLAIN} : search(t, q, 11, TW)
    \/ \E t \in Tasks, q \in {Q_EMPTY, Q_SPACE} :
          search_and_fetch(t, q, 11, FMT_TEXT, TW)
    \/ \E t \in Tasks, q \in {Q_EMPTY, Q_PLAIN}, l \in {1, 11},
          f \in {None, FILTER_T1} :
          advanced_search(t, q, l, <<>>, f, "title", TRUE)
    \/ \E t \in Tasks, q \in {Q_EMPTY, Q_PLAIN}, l \in {-1, 11} :
          summarize_search_results(t, q, l, TW)
    \/ \E t \in Tasks : SearchAcquire(t)
    \/ \E t \in Tasks, o \in {SearchOk(Page(12)), [kind |-> "timeout"]} :
          SearchBackend(t, o)

SpecTools == Init /\ [][NextTools]_vars

\* searches of two classes against a backend that fails in every way,
\* while time passes
NextStale ==
    \/ \E t \in Tasks, q \in {Q_NEWS, Q_PLAIN} : search(t, q, 1, TW)
    \/ \E t \in Tasks : SearchAcquire(t)
    \/ \E t \in Tasks, o \in {SearchOk(<<NODE_A>>)} \cup SearchFailures :
          SearchBackend(t, o)
    \/ Tick

SpecStale == Init /\ [][NextStale]_vars

\* fetch_url repeated on one page, given with and without its scheme, while
\* time passes
NextStore ==
    \/ \E t \in Tasks, u \in {URL_A_BARE, URL_A}, f \in {FMT_TEXT, FMT_MARKDOWN} :
          fetch_url(t, u, f, CONTENT_LENGTH_LIMIT)
    \/ \E t \in Tasks : FetchAcquire(t, 1)
    \/ \E t \in Tasks, o \in FetchOutcomes : FetchResponse(t, 1, o)
    \/ Tick

SpecStore == InitFetch /\ [][NextStore]_vars

\* searches and fetches between administrative calls with valid and
\* invalid arguments
REGION_LONG == <<"t", "a", "i", "w", "a", "n">>

NextAdmin ==
    \/ \E t \in Searchers : search(t, Q_PLAIN, 1, TW)
    \/ \E t \in Tasks : SearchAcquire(t)
    \/ \E t \in Tasks, o \in {SearchOk(<<NODE_A>>), [kind |-> "timeout"]} :
          SearchBackend(t, o)
    \/ \E t \in Fetchers : fetch(t, URL_B, FMT_TEXT)
    \/ \E t \in Tasks : FetchAcquire(t, 1)
    \/ \E t \in Tasks, o \in {FetchOk, [kind |-> "timeout"]} : FetchResponse(t, 1, o)
    \/ clear_cache
    \/ \E r \in {None, Arg(REGION_LONG)}, m \in {None, Arg(0)},
          c \in {None, Arg(0), Arg(3), Arg(-1)} :
          set_search_preferences(r, None, m, c)
    \/ Tick

SpecAdmin == Init /\ [][NextAdmin]_vars

\* fetch_url with a max_length of zero and one below the longest page, on
\* a short and a long page
MaxPage == 3

NextCut ==
    \/ \E t \in Tasks, f \in Formats, m \in {0, MaxPage - 1} :
          fetch_url(t, URL_A, f, m)
    \/ \E t \in Tasks : FetchAcquire(t, 1)
    \/ \E t \in Tasks,
          o \in {[FetchOk EXCEPT !.page = Page_Of(n)] : n \in {1, MaxPage}}
                     \cup {[kind |-> "timeout"]} :
          FetchResponse(t, 1, o)

SpecCut == InitFetch /\ [][NextCut]_vars

\* filter_and_sort_results on every list of up to MaxList records out of
\* three: two titles differ in case only, the URLs and snippets differ in
\* case from the filters
MaxList == 3

RECORD_1 == [title |-> <<"b">>, url |-> <<"h", "t", "t", "p", "s", ":", "/", "/", "a", ".", "o", "r", "g", "/", "1">>,
             display_url |-> <<"a", ".", "o", "r", "g", "/", "1">>,
             snippet |-> <<"p", "y">>]
RECORD_2 == [title |-> <<"B">>, url |-> <<"h", "t", "t", "p", "s", ":", "/", "/", "A", ".", "o", "r", "g", "/", "2">>,
             display_url |-> <<"A", ".", "o", "r", "g", "/", "2">>,
             snippet |-> <<"P", "Y", " ", "j", "s">>]
RECORD_3 == [title |-> <<"a", " ", "j", "s">>, url |-> <<"h", "t", "t", "p", "s", ":", "/", "/", "b", ".", "i", "o">>,
             display_url |-> <<"b", ".", "i", "o">>,
             snippet |-> <<>>]

Lists == UNION {[1..n -> {RECORD_1, RECORD_2, RECORD_3}] : n \in 0..MaxList}

Filters ==
    {None,
     Arg([domain |-> <<"A", ".", "O", "R", "G">>]),
     Arg([keywords |-> <<<<"P", "Y">>, <<"j", "s">>>>]),
     Arg([exclude_keywords |-> <<<<"J", "S">>>>]),
     Arg([domain |-> <<"o", "r", "g">>, keywords |-> <<<<"p", "y">>>>,
          exclude_keywords |-> <<<<"j", "s">>>>])}

NextFilter ==
    \E results \in Lists, filters \in Filters, sort_by \in {"relevance", "title"},
       reverse \in BOOLEAN :
        CallFilterAndSort(results, filters, sort_by, reverse)

SpecFilter == Init /\ [][NextFilter]_vars

\* search_and_fetch of one query in two content formats, against pages
\* that load, time out or are not found
NextFormats ==
    \/ \E t \in Tasks, f \in {FMT_TEXT, FMT_HTML} :
          search_and_fetch(t, Q_PLAIN, 1, f, TW)
    \/ \E t \in Tasks : SearchAcquire(t)
    \/ \E t \in Tasks : SearchBackend(t, SearchOk(<<NODE_A>>))
    \/ \E t \in Tasks : GatherStart(t)
    \/ \E t \in Tasks : FetchAcquire(t, 1)
    \/ \E t \in Tasks, o \in {FetchOk, [kind |-> "timeout"], HttpError(404)} :
          FetchResponse(t, 1, o)
    \/ \E t \in Tasks : Join(t)

SpecFormats == Init /\ [][NextFormats]_vars

\* the four tools that search, called with a valid region, a region that
\* is not in the list of the valid ones, and an empty region
REGION_XX == <<"x", "x">>

NextRegion ==
    \/ \E t \in Tasks, r \in {TW, REGION_XX, <<>>} : search(t, Q_PLAIN, 1, r)
    \/ \E t \in Tasks, r \in {TW, REGION_XX, <<>>} :
          search_and_fetch(t, Q_PLAIN, 1, FMT_TEXT, r)
    \/ \E t \in Tasks, r \in {TW, REGION_XX, <<>>} :
          advanced_search(t, Q_PLAIN, 1, r, None, "relevance", FALSE)
    \/ \E t \in Tasks, r \in {TW, REGION_XX, <<>>} :
          summarize_search_results(t, Q_PLAIN, 1, r)
    \/ \E t \in Tasks : SearchAcquire(t)
    \/ \E t \in Tasks, o \in {SearchOk(<<NODE_A>>), [kind |-> "timeout"]} :
          SearchBackend(t, o)
    \/ \E t \in Tasks : GatherStart(t)
    \/ \E t \in Tasks : FetchAcquire(t, 1)
    \/ \E t \in Tasks : FetchResponse(t, 1, FetchOk)
    \/ \E t \in Tasks : Join(t)

SpecRegion == Init /\ [][NextRegion]_vars

\* filter_and_sort_results by date on every list of up to MaxList records
\* out of six: two without a date, one of 1850, one with the day first, one
\* with the month by name, one with a month 13
DATED_1 == [title |-> <<"u", "1">>, url |-> URL_A, display_url |-> URL_A_BARE,
            snippet |-> <<>>]
DATED_2 == [title |-> <<"u", "2">>, url |-> URL_A, display_url |-> URL_A_BARE,
            snippet |-> <<"n", "o", " ", "d", "a", "t", "e">>]
DATED_3 == [title |-> <<"o", "l", "d">>, url |-> URL_A, display_url |-> URL_A_BARE,
            snippet |-> <<"O", "n", " ", "1", "8", "5", "0", "-", "0", "5", "-", "0", "5">>]
DATED_4 == [title |-> <<"d", "m", "y">>, url |-> URL_A, display_url |-> URL_A_BARE,
            snippet |-> <<"5", "/", "6", "/", "2", "0", "2", "1", " ", "x">>]
DATED_5 == [title |-> <<"m", "o", "n">>, url |-> URL_A, display_url |-> URL_A_BARE,
            snippet |-> <<"a", "t", " ", "M", "a", "y", " ", "5", ",", " ", "2", "0", "2", "0">>]
DATED_6 == [title |-> <<"b", "a", "d">>, url |-> URL_A, display_url |-> URL_A_BARE,
            snippet |-> <<"2", "0", "2", "0", "-", "1", "3", "-", "0", "1">>]

DatedLists ==
    UNION {[1..n -> {DATED_1, DATED_2, DATED_3, DATED_4, DATED_5, DATED_6}] :
              n \in 0..MaxList}

NextDate ==
    \E results \in DatedLists, reverse \in BOOLEAN :
        CallFilterAndSort(results, None, "date", reverse)

SpecDate == Init /\ [][NextDate]_vars

\* set_search_preferences with every mix of absent, valid, invalid and
\* mistyped arguments, on caches that a search has filled
REGION_US == <<"U", "S">>

NextPrefs ==
    \/ \E t \in Searchers : search(t, Q_PLAIN, 1, TW)
    \/ \E t \in Tasks : SearchBackend(t, SearchOk(<<NODE_A>>))
    \/ \E r \in {None, Arg(REGION_US), Arg(REGION_LONG), Mistyped},
          s \in {None, Arg(FALSE)},
          m \in {None, Arg(0)},
          c \in {None, Arg(3), Arg(-1), Mistyped} :
          set_search_preferences(r, s, m, c)

SpecPrefs == Init /\ [][NextPrefs]_vars

\* analyze_search_results on the sublists of MaxAnalyzed records, with or
\* without one more record whose URL has an unclosed bracket. Record n has
\* the n-th letter in its domain (from the sixth on, the sixth), a title
\* word of its own in capitals, and a snippet with a stop word, a word of
\* its own, a short word, a word that ends in a digit and the title word
\* of record n + 1
MaxAnalyzed == 7

Letter(n) == LOWERCASE[((n - 1) % 26) + 1]

Analyzed(n) ==
    LET d == Letter(IF n < 6 THEN n ELSE 6)
        next == Letter(n + 1)
    IN [title |-> <<UPPERCASE[((n - 1) % 26) + 1], Letter(n), Letter(n)>>,
        url |-> <<"h", "t", "t", "p", "s", ":", "/", "/", d, ".", "i", "o", "/">>
                    \o NatStr(n),
        display_url |-> <<d, ".", "i", "o", "/">> \o NatStr(n),
        snippet |-> <<"t", "h", "e", " ", Letter(n), Letter(n), next, " ",
                      "a", "b", " ", "a", "b", "c", "1", " ", next, next, next>>]

RECORD_BRACKET ==
    [title |-> <<"I", "P">>, url |-> <<"h", "t", "t", "p", "s", ":", "/", "/", "[">>,
     display_url |-> <<"h", "t", "t", "p", "s", ":", "/", "/", "[">>,
     snippet |-> <<>>]

RECURSIVE Chosen(_, _)
Chosen(n, S) ==
    IF n > MaxAnalyzed THEN <<>>
    ELSE (IF n \in S THEN <<Analyzed(n)>> ELSE <<>>) \o Chosen(n + 1, S)

NextAnalyze ==
    \E S \in SUBSET (1..MaxAnalyzed), tail \in {<<>>, <<RECORD_BRACKET>>} :
        CallAnalyze(Chosen(1, S) \o tail)

SpecAnalyze == Init /\ [][NextAnalyze]_vars

\* search_and_fetch against a backend that finds nothing, finds one page,
\* or fails
NextEmpty ==
    \/ \E t \in Tasks : search_and_fetch(t, Q_PLAIN, 2, FMT_TEXT, TW)
    \/ \E t \in Tasks : SearchAcquire(t)
    \/ \E t \in Tasks,
          o \in {SearchOk(<<>>), SearchOk(<<NODE_A>>)} \cup SearchFailures :
          SearchBackend(t, o)
    \/ \E t \in Tasks : GatherStart(t)
    \/ \E t \in Tasks : FetchAcquire(t, 1)
    \/ \E t \in Tasks, o \in {FetchOk, [kind |-> "timeout"]} : FetchResponse(t, 1, o)
    \/ \E t \in Tasks : Join(t)

SpecEmpty == Init /\ [][NextEmpty]_vars

\* One search repeated, against a backend that may suggest another query
NextShape ==
    \/ \E t \in Tasks : search(t, Q_PLAIN, 2, TW)
    \/ \E t \in Tasks : SearchAcquire(t)
    \/ \E t \in Tasks,
          o \in {SearchOk(<<NODE_A, NODE_B>>), SearchDidYouMean(<<NODE_A>>),
                 SearchOk(<<>>), [kind |-> "timeout"]} :
          SearchBackend(t, o)
    \/ Tick

SpecShape == Init /\ [][NextShape]_vars

----------------------------------------------------------------------------
(* Properties *)

Lookups == {ev.lookups[i] : i \in 1..Len(ev.lookups)}

\* the fetch_url coroutines of the call that has just returned
DoneFetches == UNION {{d.kids[i] : i \in 1..Len(d.kids)} : d \in ev.done}

\* the requests in flight: backend searches, primary and fallback fetches
SearchesInFlight == Cardinality({t \in Tasks : task[t].pc = "sd_net"})

RECURSIVE Sum(_, _)
Sum(f, S) == IF S = {} THEN 0 ELSE LET x == CHOOSE x \in S : TRUE
                                   IN f[x] + Sum(f, S \ {x})

FetchesInFlight ==
    Sum([t \in Tasks |->
            Cardinality({i \in 1..Len(task[t].kids) :
                            task[t].kids[i].pc \in {"net", "fallback"}})],
        Tasks)

InFlight == SearchesInFlight + FetchesInFlight

Waiting ==
    \E t \in Tasks :
        \/ task[t].pc = "sd_wait"
        \/ \E i \in 1..Len(task[t].kids) : task[t].kids[i].pc = "wait"

AllIdle == \A t \in Tasks : task[t].pc = "idle"

\* C1: the number of outbound requests in flight at the same time (backend
\* search, primary fetch, fallback fetch) never exceeds the gate size
C1_GateBound == InFlight <= gate

\* the gate is full while a further fetch waits for a permit
C1_Witness == InFlight = gate /\ gate > 1 /\ Waiting

\* C2: every request in flight holds one permit and every permit taken is
\* held by a request in flight, so no exit path leaks a permit and the free
\* permits equal the gate size whenever no call is in progress
C2_PermitsAccounted ==
    /\ request_semaphore >= 0
    /\ request_semaphore + InFlight = gate
    /\ AllIdle => request_semaphore = gate

\* a fetch has just returned an error after a failed fallback and every
\* permit is free again
C2_Witness ==
    /\ AllIdle
    /\ request_semaphore = gate
    /\ \E f \in DoneFetches : Len(f.calls) = 2 /\ f.result.status = "error"

\* C3: a lookup that finds an entry whose TTL has elapsed (the class TTL of
\* the query for a search, the cache TTL for a content lookup) is not
\* served from the cache and is counted as one miss and no hit
C3_NoExpiredEntry ==
    \A l \in Lookups :
        l.age >= l.ttl => ~l.served /\ l.hits = 0 /\ l.misses = 1

\* a search finds an entry that has outlived its class TTL while the
\* TTLCache still holds it
C3_Witness ==
    \E l \in Lookups :
        /\ l.cache = "search"
        /\ l.age >= l.ttl
        /\ TTLContains(search_cache, l.key, now)

\* C4: a search lookup of a key whose entry was stored and not evicted,
\* cleared or reconfigured away is a hit exactly while the TTL of the
\* query's class has not elapsed since the store
C4_PerEntryTtl ==
    \A l \in Lookups :
        (l.cache = "search" /\ l.age # -1) =>
            (l.served <=> l.age < l.ttl)

RAW_FIELDS == {"title", "url", "display_url", "snippet"}

\* C5: every list stored in the search cache holds raw records only
C5_CacheHoldsRawList ==
    \A i \in 1..Len(search_cache.items) :
        LET list == heap[search_cache.items[i].value] IN
        \A j \in 1..Len(list) : DOMAIN list[j] = RAW_FIELDS

\* C6: a search call that returns within the TTL window of an identical
\* earlier search call returns the same results list from the cache, as one
\* hit and no miss, without a request
C6_IdenticalSearches ==
    \A d \in ev.done : \A p \in d.prev :
        now - p.at < QueryTtl(d.query, CONFIG) =>
            /\ d.resp.status = "success"
            /\ d.resp.source = "cache"
            /\ d.resp.results = p.results
            /\ \E l \in Lookups :
                  l.key = d.key /\ l.hits = 1 /\ l.misses = 0 /\ l.calls = <<>>

Kinds(f) == [i \in 1..Len(f.outs) |-> f.outs[i].kind]

\* C7: a markdown fetch through the extraction service whose first request
\* times out and whose direct fetch succeeds returns success in text format
\* with the degraded-mode note, after exactly the two requests
C7_FallbackSucceeds ==
    \A f \in DoneFetches :
        (f.use_jina /\ Kinds(f) = <<"timeout", "ok">>) =>
            /\ f.result.status = "success"
            /\ f.result.format = FMT_TEXT
            /\ "note" \in DOMAIN f.result
            /\ f.calls = <<"r.jina.ai", "direct">>

C7_Witness ==
    \E f \in DoneFetches :
        f.fmt = FMT_MARKDOWN /\ f.use_jina /\ Kinds(f) = <<"timeout", "ok">>

\* C8: a failed fallback is reported as a timeout error whatever made it
\* fail, and a timeout of a direct fetch is a timeout error after exactly
\* one request
C8_TimeoutIsTerminal ==
    \A f \in DoneFetches :
        /\ (Len(f.outs) = 2 /\ f.outs[2].kind # "ok") =>
              /\ f.result.status = "error"
              /\ f.result.error_type = "timeout"
        /\ (~f.use_jina /\ Len(f.outs) > 0 /\ f.outs[1].kind = "timeout") =>
              /\ f.result.status = "error"
              /\ f.result.error_type = "timeout"
              /\ f.calls = <<"direct">>

\* a markdown fetch with the extraction service disabled has timed out, and
\* so has a fallback failed by an HTTP error
C8_Witness ==
    \E f \in DoneFetches :
        \/ f.fmt = FMT_MARKDOWN /\ ~f.use_jina /\ Kinds(f) = <<"timeout">>
        \/ Kinds(f) = <<"timeout", "http">>

\* the message the table gives for an HTTP status code
TableSays(code, message) ==
    /\ code = 404 => message = <<"page not found or removed">>
    /\ code = 403 => message = <<"access denied">>
    /\ code = 500 => message = <<"server error">>
    /\ code = 503 => message = <<"temporarily unavailable">>
    /\ code \notin {404, 403, 500, 503} => message = <<"HTTP", code>>

ReportedAsHttp(f, code) ==
    /\ f.result.status = "error"
    /\ f.result.error_type = "http"
    /\ f.result.code = code
    /\ TableSays(code, f.result.message)

\* C9 as claimed: every HTTP status error of a request of fetch_url, the
\* fallback request included, is reported as an http error with its code
\* and table message
C9_EveryHttpError ==
    \A f \in DoneFetches :
        \A i \in 1..Len(f.outs) :
            f.outs[i].kind = "http" => ReportedAsHttp(f, f.outs[i].code)

\* C9 amended: an HTTP status error of the primary request is reported as
\* an http error with its code and table message; one of the fallback
\* request is reported as a timeout error without a code; either ends the
\* fetch with no further request
C9_PrimaryHttpError ==
    \A f \in DoneFetches :
        /\ (Len(f.outs) > 0 /\ f.outs[1].kind = "http") =>
              /\ ReportedAsHttp(f, f.outs[1].code)
              /\ Len(f.calls) = 1
        /\ (Len(f.outs) = 2 /\ f.outs[2].kind = "http") =>
              /\ f.result.status = "error"
              /\ f.result.error_type = "timeout"
              /\ "code" \notin DOMAIN f.result
              /\ Len(f.calls) = 2

C9_Witness ==
    \E f \in DoneFetches :
        /\ Len(f.outs) = 1
        /\ f.outs[1] = HttpError(503)
        /\ f.use_jina

\* C10: a fetch_url whose key is in the content cache, unexpired, returns
\* the cached result at once, with the permits as they were and without a
\* request
C10_HitNeedsNoPermit ==
    \A l \in Lookups :
        (l.cache = "url" /\ l.age # -1 /\ l.age < l.ttl) =>
            /\ l.served
            /\ l.same
            /\ l.sem_after = l.sem
            /\ l.calls = <<>>

\* a fetch is served from the cache while every permit is taken
C10_Witness ==
    \E l \in Lookups :
        l.cache = "url" /\ l.served /\ l.sem = 0 /\ l.age > 0 /\ InFlight = gate

\* the fetch_url calls made on their own that have just returned
DirectCalls == {d \in ev.done : d.op = "fetch_url"}

Counted == cache_stats.hits + cache_stats.misses

\* C11 as claimed: the step that starts a fetch_url call, whatever its URL,
\* raises exactly one of hits and misses by one
C11_EveryCallCounts ==
    [][ncalls' = ncalls + 1 =>
          /\ Counted' = Counted + 1
          /\ cache_stats'.hits >= cache_stats.hits
          /\ cache_stats'.misses >= cache_stats.misses]_vars

\* C11 amended: the step that starts a fetch_url call with a non-empty URL
\* raises exactly one of hits and misses by one, the step that starts one
\* with an empty URL leaves both as they are, and no later step of a
\* fetch_url changes them
C11_ValidCallCounts ==
    [][/\ (ncalls' = ncalls + 1 /\ \A d \in DirectCalls' : d.query # <<>>) =>
             /\ Counted' = Counted + 1
             /\ cache_stats'.hits >= cache_stats.hits
             /\ cache_stats'.misses >= cache_stats.misses
       /\ (ncalls' = ncalls + 1 /\ \E d \in DirectCalls' : d.query = <<>>) =>
             cache_stats' = cache_stats
       /\ ncalls' = ncalls => cache_stats' = cache_stats]_vars

\* a call with an empty URL has returned after calls that hit and missed
C11_Witness ==
    /\ \E d \in DirectCalls : d.query = <<>>
    /\ cache_stats.hits > 0
    /\ cache_stats.misses > 0

\* C17: a fetch_url given an empty URL returns an error without a lookup
\* or a request; given any other URL it looks up and requests the URL with
\* https:// put in front unless it starts with http:// or https://, so the
\* key of every lookup starts with a scheme
C17_SchemeBeforeKey ==
    /\ \A d \in DirectCalls :
          LET f == d.kids[1] IN
          IF d.query = <<>>
          THEN /\ d.resp.status = "error"
               /\ f.calls = <<>>
               /\ f.key = <<>>
               /\ ev.lookups = <<>>
          ELSE LET url == IF StartsWith(d.query, HTTP_PREFIX)
                             \/ StartsWith(d.query, HTTPS_PREFIX)
                          THEN d.query ELSE HTTPS_PREFIX \o d.query
               IN /\ f.url = url
                  /\ f.key = url \o <<":">> \o f.fmt
                  /\ "url" \in DOMAIN d.resp => d.resp.url = url
    /\ \A l \in Lookups :
          l.cache = "url" =>
              StartsWith(l.key, HTTP_PREFIX) \/ StartsWith(l.key, HTTPS_PREFIX)
    /\ \A i \in 1..Len(url_cache.items) :
          StartsWith(url_cache.items[i].key, HTTPS_PREFIX)

\* a call given the bare URL is served what a call given the complete URL
\* stored
C17_Witness ==
    \E d \in DirectCalls :
        /\ d.query = URL_A_BARE
        /\ d.kids[1].calls = <<>>
        /\ d.resp.status = "success"
        /\ d.resp.url = URL_A

\* C12: every lookup of either cache raises exactly one of hits and misses
\* by one, hits exactly when it is served from the cache; every step raises
\* hits + misses by the number of lookups it makes, which is one for the
\* start of a search, search_and_fetch or fetch call and the number of
\* results for the fan-out of a search_and_fetch, however the fetches
\* interleave
C12_OneCountPerLookup ==
    /\ [](\A l \in Lookups :
              /\ l.hits \in {0, 1}
              /\ l.misses = 1 - l.hits
              /\ l.hits = 1 <=> l.served)
    /\ [][/\ Counted' = Counted + Len(ev'.lookups)
          /\ ncalls' = ncalls + 1 => Len(ev'.lookups) = 1
          /\ \A t \in Tasks :
                (task[t].pc = "gather" /\ task'[t] # task[t]) =>
                    Len(ev'.lookups) = Len(task[t].kids)]_vars

\* the fan-out of a search_and_fetch over two results finds one of them in
\* the content cache and the other not
C12_Witness ==
    /\ Len(ev.lookups) = 2
    /\ \E t \in Tasks : task[t].op = "search_and_fetch" /\ task[t].pc = "join"
    /\ \E i, j \in 1..2 : ev.lookups[i].served /\ ~ev.lookups[j].served

CacheKeys(c) == {c.items[i].key : i \in 1..Len(c.items)}

\* the keys of the entries stored less than the cache's TTL ago
UnexpiredKeys(c, t) ==
    {c.items[i].key : i \in {j \in 1..Len(c.items) : t - c.items[j].at < c.ttl}}

\* a step that puts a new key into cache c, full of unexpired entries,
\* drops the unexpired key least recently read or stored and nothing else
EvictsOldest(c, after, order) ==
    LET new == CacheKeys(after) \ CacheKeys(c)
        old == UnexpiredKeys(c, now)
        oldest == SelectSeq(order, LAMBDA k : k \in old)
    IN (new # {} /\ Cardinality(old) = CACHE_MAX_SIZE) =>
          /\ Cardinality(new) = 1
          /\ CacheKeys(after) = (old \ {oldest[1]}) \cup new

\* C14: each cache holds at most CACHE_MAX_SIZE entries, and storing a new
\* key in a cache that holds CACHE_MAX_SIZE unexpired entries evicts exactly
\* the least recently read or stored one
C14_EvictsLeastRecentlyUsed ==
    /\ [](/\ Len(search_cache.items) <= CACHE_MAX_SIZE
          /\ Len(url_cache.items) <= CACHE_MAX_SIZE)
    /\ [][/\ EvictsOldest(search_cache, search_cache', used.search)
          /\ EvictsOldest(url_cache, url_cache', used.url)]_vars

\* after a fan-out has filled the content cache and one of its entries has
\* been read, a fetch has stored a third key
C14_Witness ==
    /\ cache_stats.hits = 1
    /\ cache_stats.misses = 4
    /\ Len(url_cache.items) = CACHE_MAX_SIZE
    /\ \E d \in ev.done :
          /\ d.op = "fetch"
          /\ d.kids[1].calls # <<>>
          /\ d.resp.status = "success"
          /\ d.kids[1].key \in CacheKeys(url_cache)

\* the searches in progress whose lookup the last step made
Looked ==
    {t \in Tasks : /\ task[t].pc \in {"sd_net", "sd_wait"}
                   /\ Len(ev.lookups) = 1
                   /\ ev.lookups[1].key = task[t].key}

Mentions(query, terms) == \E term \in terms : Contains(lower(query), term)

\* C15: the TTL a search looks its key up with is the news TTL when the
\* query, in lower case, contains a news term, else the docs TTL when it
\* contains a docs term, else the default TTL; the three example queries
\* get the news, docs and default TTL
C15_NewsBeforeDocs ==
    \A t \in Looked :
        LET q == task[t].query
            ttl == ev.lookups[1].ttl
        IN /\ Mentions(q, NEWS_TERMS) => ttl = CACHE_TTL_NEWS
           /\ (~Mentions(q, NEWS_TERMS) /\ Mentions(q, DOCS_TERMS)) =>
                 ttl = CACHE_TTL_DOCS
           /\ (~Mentions(q, NEWS_TERMS) /\ ~Mentions(q, DOCS_TERMS)) =>
                 ttl = CONFIG.CACHE_TTL
           /\ q = Q_LATEST_AI_NEWS => ttl = CACHE_TTL_NEWS
           /\ q = Q_PYTHON_TUTORIAL_DOCS => ttl = CACHE_TTL_DOCS
           /\ q = Q_HELLO_WORLD => ttl = CONFIG.CACHE_TTL
           /\ q = Q_GUIDE_TO_NEWS => ttl = CACHE_TTL_NEWS
           /\ q = Q_UPPER_DOCS => ttl = CACHE_TTL_DOCS
           /\ q = Q_CJK_BOTH => ttl = CACHE_TTL_NEWS

\* a query with a docs term and a news term in capitals has been looked up
C15_Witness == \E t \in Looked : task[t].query = Q_GUIDE_TO_NEWS

\* the search_and_fetch calls that have just returned after their fan-out
FannedOut ==
    {d \in ev.done : d.op = "search_and_fetch" /\ Len(d.kids) > 0}

\* C18: the response of a search_and_fetch that has fanned out over n
\* results is a success with n records in backend order, the i-th carrying
\* the search fields of the i-th result and every field of the result its
\* own fetch_url returned, whether that is a success or an error and
\* whatever the other fetches returned
C18_PerItemOutcome ==
    \A d \in FannedOut :
        LET backend == <<ResultDict(NODE_A), ResultDict(NODE_B)>> IN
        /\ d.resp.status = "success"
        /\ Len(d.resp.results) = Len(d.kids)
        /\ d.resp.total = Len(d.kids)
        /\ Len(d.kids) = Len(backend)
        /\ \A i \in 1..Len(d.kids) :
              LET r == d.resp.results[i]
                  c == d.kids[i].result
              IN /\ c.status \in {"success", "error"}
                 /\ \A x \in RAW_FIELDS : r[x] = backend[i][x]
                 /\ \A x \in DOMAIN c : x \in DOMAIN r /\ r[x] = c[x]

\* the first fetch of a fan-out has failed and the second has succeeded
C18_Witness ==
    \E d \in FannedOut :
        /\ d.kids[1].result.status = "error"
        /\ d.kids[2].result.status = "success"
        /\ d.kids[2].calls # <<>>

\* the search calls that have just returned a success
Found == {d \in ev.done : d.op = "search" /\ d.resp.status = "success"}

\* C20: every successful response of search, from the backend or from the
\* cache, has status, results and total, total being the number of
\* results, and a response served from the cache carries the suggestion
\* that the search which stored the entry returned
C20_SearchResponseShape ==
    \A d \in Found :
        /\ {"status", "results", "total"} \subseteq DOMAIN d.resp
        /\ d.resp.total = Len(d.resp.results)
        /\ \A p \in d.prev :
              (d.resp.source = "cache" /\ p.suggestion # "None") =>
                  /\ "suggestion" \in DOMAIN d.resp
                  /\ d.resp.suggestion = p.suggestion

\* the calls that are inside search_duckduckgo, past its cache lookup
InSearch == {t \in Tasks : task[t].pc \in {"sd_wait", "sd_net"}}

\* C13: two calls of search_duckduckgo that differ in query, limit or
\* region (with the same safe-search setting) never have the same cache
\* key, whatever region string the caller passed on
C13_DistinctKeys ==
    \A t1, t2 \in InSearch :
        <<task[t1].query, task[t1].limit, task[t1].region>>
                # <<task[t2].query, task[t2].limit, task[t2].region>>
            => task[t1].key # task[t2].key

SearchTools ==
    {"search", "search_and_fetch", "advanced_search", "summarize_search_results"}

\* C16: a call of search, search_and_fetch, advanced_search or
\* summarize_search_results with the empty query returns at once with
\* status error: it looks nothing up, requests nothing, takes no permit
\* and leaves the caches, the store times and the counters as they were
C16_EmptyQueryRejected ==
    /\ [](\A t \in Tasks : task[t].op \in SearchTools => task[t].query # <<>>)
    /\ [][\A d \in ev'.done :
             (d.op \in SearchTools /\ d.query = <<>>) =>
                 /\ d.resp.status = "error"
                 /\ d.key = <<>>
                 /\ ev'.lookups = <<>>
                 /\ UNCHANGED <<search_cache, url_cache, search_cache_times,
                                cache_stats, request_semaphore>>]_vars

\* advanced_search has rejected the empty query while the cache held an
\* entry, the counters were not zero and another call held a permit
C16_Witness ==
    \E d \in ev.done :
        /\ d.op = "advanced_search"
        /\ d.query = <<>>
        /\ d.resp.status = "error"
        /\ search_cache.items # <<>>
        /\ cache_stats.misses > 1
        /\ \E t \in Tasks : task[t].pc = "sd_net"

\* the calls that have just returned after a call of search_duckduckgo
Searched == {d \in ev.done : d.op \in SearchTools /\ d.key # <<>>}

\* C19: every call of search_duckduckgo has a limit from 1 to 10 and
\* gives at most 10 records
C19_LimitWithinBounds ==
    /\ \A t \in InSearch : task[t].limit \in 1..10
    /\ \A d \in Searched :
          /\ d.limit \in 1..10
          /\ d.resp.status = "success" =>
                CASE d.op = "advanced_search" -> d.resp.original_count <= 10
                  [] d.op = "summarize_search_results" -> d.resp.result_count <= 10
                  [] OTHER -> Len(d.resp.results) <= 10

\* the calls in e.done that search_duckduckgo has answered with an error
Failed(e) == {d \in e.done : d.op \in SearchTools /\ d.key # <<>>
                                 /\ d.resp.status = "error"}

\* C21: a search whose backend request fails returns an error that names
\* the failure (timeout with a hint, http with the status code of the
\* backend, general otherwise) after exactly one request; its lookup
\* counted one miss, and the failure leaves the search cache, the store
\* times and the counters as they were
C21_FailedSearch ==
    /\ [](\A d \in Failed(ev) :
             /\ d.nreq = 1
             /\ Len(d.outs) = 1
             /\ "message" \in DOMAIN d.resp
             /\ CASE d.outs[1].kind = "timeout" ->
                        /\ d.resp.error_type = "timeout"
                        /\ "suggestion" \in DOMAIN d.resp
                   [] d.outs[1].kind = "http" ->
                        /\ d.resp.error_type = "http"
                        /\ d.resp.code = d.outs[1].code
                   [] OTHER -> d.resp.error_type = "general")
    /\ [][/\ Failed(ev') # {} =>
                UNCHANGED <<search_cache, search_cache_times, cache_stats>>
           /\ \A i \in 1..Len(ev'.lookups) :
                 (ev'.lookups[i].cache = "search" /\ ~ev'.lookups[i].served) =>
                     /\ ev'.lookups[i].misses = 1
                     /\ ev'.lookups[i].hits = 0]_vars

\* a search has failed with an HTTP status error of the backend while the
\* cache held an older entry under its key
C21_Witness ==
    \E d \in Failed(ev) :
        /\ d.outs[1].kind = "http"
        /\ Index(search_cache, d.key) # 0

\* the fetch_url coroutines of task t after the step
KidsAfter(t) ==
    IF \E d \in ev'.done : d.t = t
    THEN (CHOOSE d \in ev'.done : d.t = t).kids
    ELSE task'[t].kids

\* C22: url_cache holds success results only; a fetch_url whose request
\* fails leaves url_cache as it was; a fetch_url whose request succeeds
\* leaves its result stored under the key of its completed url and its
\* format; and a lookup is a hit exactly when the key is stored and its
\* cache ttl has not run out, so that the next identical fetch_url within
\* the ttl is served from the cache
C22_OnlySuccessStored ==
    /\ [](\A i \in 1..Len(url_cache.items) :
             /\ url_cache.items[i].value.status = "success"
             /\ url_cache.items[i].expires = url_cache.items[i].at + url_cache.ttl)
    /\ [][/\ \A t \in Tasks : \A i \in 1..Len(task[t].kids) :
                 (task[t].kids[i].pc \in {"net", "fallback"}
                      /\ KidsAfter(t)[i].pc = "done") =>
                     LET f == KidsAfter(t)[i] IN
                     IF f.result.status = "success"
                     THEN /\ f.key = f.url \o <<":">> \o f.fmt
                          /\ StartsWith(f.url, HTTPS_PREFIX)
                          /\ Index(url_cache', f.key) # 0
                          /\ TTLValue(url_cache', f.key) = f.result
                          /\ url_cache'.items[Index(url_cache', f.key)].at = now
                     ELSE /\ f.result.status = "error"
                          /\ url_cache' = url_cache
           /\ \A n \in 1..Len(ev'.lookups) :
                 ev'.lookups[n].cache = "url" =>
                     (ev'.lookups[n].served
                          <=> TTLContains(url_cache, ev'.lookups[n].key, now))]_vars

\* a fetch_url is served, without a request, the result an earlier call
\* stored at an earlier time
C22_Witness ==
    \E d \in ev.done :
        /\ d.op = "fetch_url"
        /\ d.kids[1].calls = <<>>
        /\ d.resp.status = "success"
        /\ Index(url_cache, d.kids[1].key) # 0
        /\ url_cache.items[Index(url_cache, d.kids[1].key)].at < now

\* cache_ttl is a non-negative int
ValidTtl(a) == a.given /\ a.typed /\ a.v >= 0

\* the administrative calls that may zero the counters
MayReset(a) ==
    \/ a.op = "clear_cache"
    \/ a.op = "set_search_preferences" /\ ValidTtl(a.args[4])

\* C23: hits and misses never decrease and are zeroed by nothing but
\* clear_cache and a set_search_preferences with a valid cache_ttl; every
\* other step raises hits + misses by the number of cache lookups it makes
C23_CountersMonotone ==
    [][IF MayReset(ev'.admin)
       THEN cache_stats' \in {[hits |-> 0, misses |-> 0], cache_stats}
       ELSE /\ cache_stats'.hits >= cache_stats.hits
            /\ cache_stats'.misses >= cache_stats.misses
            /\ cache_stats'.hits + cache_stats'.misses
                   = cache_stats.hits + cache_stats.misses + Len(ev'.lookups)]_vars

\* a set_search_preferences with a negative cache_ttl has returned and the
\* hits and misses counted before it are still there
C23_Witness ==
    /\ ev.admin.op = "set_search_preferences"
    /\ ev.admin.args[4] = Arg(-1)
    /\ ev.admin.status = "error"
    /\ cache_stats.hits > 0
    /\ cache_stats.misses > 0

\* both caches are new, empty stores with the ttl v, and CACHE_TTL is v
Renewed(v) ==
    /\ CONFIG'.CACHE_TTL = v
    /\ search_cache' = TTLCache(CACHE_MAX_SIZE, v)
    /\ url_cache' = TTLCache(CACHE_MAX_SIZE, v)
    /\ TTLLen(search_cache', now') = 0
    /\ TTLLen(url_cache', now') = 0
    /\ \A i \in 1..Len(search_cache.items) :
          ~TTLContains(search_cache', search_cache.items[i].key, now')
    /\ \A i \in 1..Len(url_cache.items) :
          ~TTLContains(url_cache', url_cache.items[i].key, now')

\* C24 as stated: every set_search_preferences with a valid cache_ttl sets
\* CACHE_TTL and replaces both caches by empty ones
C24_ValidTtlRenews ==
    [][(ev'.admin.op = "set_search_preferences" /\ ValidTtl(ev'.admin.args[4]))
           => Renewed(ev'.admin.args[4].v)]_vars

\* region is absent or a str of at most 5 characters
ValidRegion(a) == ~a.given \/ (a.typed /\ Len(a.v) <= 5)

\* max_results is absent or an int from 1 to 50
ValidMax(a) == ~a.given \/ (a.typed /\ a.v >= 1 /\ a.v <= 50)

\* C24, amended: a set_search_preferences with a valid cache_ttl whose
\* region and max_results are absent or valid sets CACHE_TTL and replaces
\* both caches by empty ones, so that every key cached before is a miss
C24_AcceptedTtlRenews ==
    [][(/\ ev'.admin.op = "set_search_preferences"
        /\ ValidTtl(ev'.admin.args[4])
        /\ ValidRegion(ev'.admin.args[1])
        /\ ValidMax(ev'.admin.args[3]))
           => /\ Renewed(ev'.admin.args[4].v)
              /\ ev'.admin.status = "success"]_vars

\* set_search_preferences has set the ttl to 3 after a search was cached:
\* the store time of the search is still there, the caches are empty
C24_Witness ==
    /\ ev.admin.op = "set_search_preferences"
    /\ ev.admin.args[4] = Arg(3)
    /\ ev.admin.status = "success"
    /\ search_cache_times # EmptyDict
    /\ CONFIG.CACHE_TTL = 3
    /\ search_cache.items = <<>>
    /\ url_cache.items = <<>>

\* the fetch_url calls that have just returned what a request gave them
Extracted == {d \in DirectCalls : d.resp.status = "success"
                                      /\ d.kids[1].calls # <<>>}

\* what the request of f gave, as f extracts it
ExtractedContent(f) ==
    CASE Len(f.calls) = 2 -> Body(f).plain
      [] f.use_jina -> Body(f).markdown
      [] f.fmt = FMT_HTML -> Body(f).html
      [] OTHER -> Body(f).text

\* C25: for every max_length from 0 on and every format, a content longer
\* than max_length is returned as its first max_length characters followed
\* by a marker, and a content that is not longer is returned as it is
C25_TruncatedToMaxLength ==
    \A d \in Extracted :
        LET f == d.kids[1]
            content == ExtractedContent(f)
        IN IF Len(content) > f.max_length
           THEN \E marker \in {MARKER_LINK, MARKER_HTML, MARKER_CUT} :
                    d.resp.content = SubSeq(content, 1, f.max_length) \o marker
           ELSE d.resp.content = content

\* the calls of filter_and_sort_results that have just returned
Filtered == {d \in ev.done : d.op = "filter_and_sort_results"}

\* s contains k, whatever the case of either
Has(s, k) == Contains(lower(s), lower(k))

\* r passes the filters f
Passes(r, f) ==
    /\ Truthy(f, "domain") => Has(r.url, f.v.domain)
    /\ Truthy(f, "keywords") =>
          \A i \in 1..Len(f.v.keywords) :
              Has(r.title, f.v.keywords[i]) \/ Has(r.snippet, f.v.keywords[i])
    /\ Truthy(f, "exclude_keywords") =>
          \A i \in 1..Len(f.v.exclude_keywords) :
              /\ ~Has(r.title, f.v.exclude_keywords[i])
              /\ ~Has(r.snippet, f.v.exclude_keywords[i])

\* out holds the records of kept in the order of their case-folded
\* titles (the reverse order if reverse), those of equal title in the
\* order they have in kept
StablySorted(out, kept, reverse) ==
    /\ Len(out) = Len(kept)
    /\ \E p \in [1..Len(kept) -> 1..Len(kept)] :
          /\ \A i, j \in 1..Len(kept) : i # j => p[i] # p[j]
          /\ \A i \in 1..Len(kept) : out[i] = kept[p[i]]
          /\ \A i, j \in 1..Len(kept) :
                i < j =>
                    LET a == lower(out[i].title)
                        b == lower(out[j].title)
                    IN IF a = b THEN p[i] < p[j]
                       ELSE IF reverse THEN StrLess(b, a) ELSE StrLess(a, b)

Combined == {d \in ev.done : d.op = "search_and_fetch" /\ d.key # <<>>}

\* C27: search_and_fetch returns no_results, with suggestions and without
\* any fetch_url, exactly when its search succeeds with an empty list; when
\* its search fails it returns the error of the search as it is, without
\* any fetch_url; otherwise it fetches
C27_NoResults ==
    \A d \in Combined :
        LET failed == d.outs # <<>> /\ d.outs[1].kind # "ok" IN
        /\ failed <=> d.found = -1
        /\ d.outs # <<>> /\ ~failed => d.found = Len(Slice(d.outs[1].nodes, d.limit))
        /\ d.resp.status = "no_results" <=> d.found = 0
        /\ d.resp.status = "no_results" =>
              /\ d.resp.suggestions # <<>>
              /\ d.kids = <<>>
        /\ failed =>
              /\ d.resp = SearchResponse(Globals, d.key, d.limit, d.outs[1], now).resp
              /\ d.resp.status = "error"
              /\ d.kids = <<>>
        /\ d.kids = <<>> <=> d.resp.status \in {"no_results", "error"}

\* search_and_fetch has answered no_results from a cached empty list
C27_Witness ==
    \E d \in Combined :
        /\ d.resp.status = "no_results"
        /\ d.outs = <<>>
        /\ d.nreq = 0

\* ---- C28 ----
Analysis == {d \in ev.done : d.op = "analyze_search_results"}

Descending(pairs) ==
    \A i \in 1..(Len(pairs) - 1) : pairs[i][2] >= pairs[i + 1][2]

\* C28: analyze_search_results returns an error result if and only if the
\* list it is given is empty; for a list that is not empty it returns
\* status success with at most 5 top domains and at most 10 top keywords,
\* each in descending order of count
C28_ErrorIffEmpty ==
    \A d \in Analysis :
        /\ d.resp.status = "error" <=> d.args.results = <<>>
        /\ d.args.results # <<>> =>
               /\ d.resp.status = "success"
               /\ Len(d.resp.top_domains) <= 5
               /\ Len(d.resp.top_keywords) <= 10
               /\ Descending(d.resp.top_domains)
               /\ Descending(d.resp.top_keywords)

\* the same for lists whose URLs all parse
C28_ParsedLists ==
    \A d \in Analysis :
        (\A i \in 1..Len(d.args.results) : ~InvalidNetloc(d.args.results[i].url)) =>
            /\ d.resp.status = "error" <=> d.args.results = <<>>
            /\ d.args.results # <<>> =>
                   /\ d.resp.status = "success"
                   /\ Len(d.resp.top_domains) <= 5
                   /\ Len(d.resp.top_keywords) <= 10
                   /\ Descending(d.resp.top_domains)
                   /\ Descending(d.resp.top_keywords)

\* a list of more than 5 domains and more than 10 keywords was analysed,
\* and the most frequent of each was not the first met
C28_CapsReached ==
    \E d \in Analysis :
        /\ d.resp.status = "success"
        /\ Len(d.resp.top_domains) = 5
        /\ Len(d.resp.top_keywords) = 10
        /\ Len(d.args.results) > 5
        /\ d.resp.top_domains[1][1] # netloc(d.args.results[1].url)
        /\ d.resp.top_keywords[1][2] > 1

\* ---- C29 ----
\* the lookups of a step that found an entry under their key, stored at
\* least the TTL of the class of their query ago
StaleLookups(e) ==
    {i \in 1..Len(e.lookups) : /\ e.lookups[i].cache = "search"
                                /\ e.lookups[i].age # -1
                                /\ e.lookups[i].age >= e.lookups[i].ttl}

\* C29: a search lookup that finds an entry whose class TTL has elapsed is
\* a miss and drops the entry: after the lookup the key is no longer in the
\* search cache and no longer counts toward its size, and a failure of the
\* backend request that follows does not bring it back
C29_StaleEntryDropped ==
    [][/\ \A i \in StaleLookups(ev') :
              /\ ~ev'.lookups[i].served
              /\ ev'.lookups[i].misses = 1
              /\ ~TTLContains(search_cache', ev'.lookups[i].key, now')
              /\ TTLLen(search_cache', now') =
                     Cardinality({j \in 1..Len(search_cache'.items) :
                         /\ Live(search_cache'.items[j], now')
                         /\ search_cache'.items[j].key # ev'.lookups[i].key})
       /\ \A d \in Failed(ev') :
              ~TTLContains(search_cache, d.key, now) =>
                  ~TTLContains(search_cache', d.key, now')]_vars

\* ---- C30 ----
SEARCH_FIELDS == {"title", "url", "display_url", "snippet"}

\* C30: in a search_and_fetch response, the record of a result whose fetch
\* failed in this call has the search fields and the fields of the error of
\* that fetch, and no content, format or note of a fetch of an earlier call
C30_FailedRecordClean ==
    \A d \in Combined :
        d.resp.status = "success" =>
            \A i \in 1..Len(d.kids) :
                d.kids[i].result.status = "error" =>
                    /\ d.resp.results[i].status = "error"
                    /\ DOMAIN d.resp.results[i] \subseteq
                           SEARCH_FIELDS \cup DOMAIN d.kids[i].result
                    /\ DOMAIN d.resp.results[i] \cap {"content", "format", "note"} = {}

\* ---- C31 ----
\* C31: the region of every call of search_duckduckgo made by search,
\* search_and_fetch, advanced_search and summarize_search_results, which is
\* the region of its cache key and the kl parameter of its request, is one
\* of tw, us, hk, cn, jp, global
C31_RegionValid ==
    /\ \A t \in InSearch :
          /\ task[t].region \in VALID_REGIONS
          /\ task[t].key = SearchCacheKey(task[t].query, task[t].limit,
                                          task[t].region, CONFIG.SAFE_SEARCH)
    /\ \A d \in Searched :
          /\ d.region \in VALID_REGIONS
          /\ d.key = SearchCacheKey(d.query, d.limit, d.region, CONFIG.SAFE_SEARCH)

\* ---- C32 ----
ByDate == {d \in Filtered : d.args.sort_by = "date"}

Undated(r) == FoundDate(r.snippet) = -1

\* C32: sorted by date, the records whose snippet has no date that parses
\* come before every record with a date when reverse is false, whatever
\* the year of that date, and after all of them when reverse is true; they
\* keep the order they have in the input
C32_UndatedOldest ==
    \A d \in ByDate :
        /\ \A i, j \in 1..Len(d.resp) :
               (Undated(d.resp[i]) /\ ~Undated(d.resp[j])) =>
                   IF d.args.reverse THEN j < i ELSE i < j
        /\ SelectSeq(d.resp, Undated) = SelectSeq(d.args.results, Undated)

\* the same for the records dated 1900 or later
C32_FromNineteenHundred ==
    \A d \in ByDate :
        /\ \A i, j \in 1..Len(d.resp) :
               (Undated(d.resp[i]) /\ ~Undated(d.resp[j])
                   /\ extract_date(d.resp[j]) > DEFAULT_DATE) =>
                   IF d.args.reverse THEN j < i ELSE i < j
        /\ SelectSeq(d.resp, Undated) = SelectSeq(d.args.results, Undated)

\* ---- C33 ----
\* fetch i of task t waits for a permit, or holds one
FetchWaits(t, i) == i <= Len(task[t].kids) /\ task[t].kids[i].pc = "wait"
FetchHolds(t, i) ==
    i <= Len(task[t].kids) /\ task[t].kids[i].pc \in {"net", "fallback"}

\* C33: whatever the size of the gate, when every request ends every call
\* returns and every wait for a permit ends with a permit; a fetch in its
\* fallback request holds the one permit it took and waits for no other
C33_EveryRequestReturns ==
    /\ [](request_semaphore + InFlight = gate)
    /\ \A t \in Tasks :
          /\ (task[t].pc # "idle") ~> (task[t].pc = "idle")
          /\ (task[t].pc = "sd_wait") ~> (task[t].pc = "sd_net")
          /\ \A i \in 1..2 : FetchWaits(t, i) ~> FetchHolds(t, i)

\* with a gate of one permit, a fetch is in its fallback request while
\* another call waits for the permit
C33_Witness ==
    /\ gate = 1
    /\ \E t \in Tasks, i \in 1..2 :
          /\ i <= Len(task[t].kids)
          /\ task[t].kids[i].pc = "fallback"
          /\ \/ \E u \in Tasks : task[u].pc = "sd_wait"
             \/ \E u \in Tasks, j \in 1..2 : FetchWaits(u, j)

\* ---- C34 ----
\* C34: every result in the url cache has the format of the key it is
\* stored under, the results of the fallback request included, so a hit
\* for a format gives content in that format
C34_CachedFormatIsKeyFormat ==
    \A i \in 1..Len(url_cache.items) :
        LET item == url_cache.items[i] IN
        \E f \in Formats :
            /\ item.key = UrlCacheKey(item.value.url, f)
            /\ item.value.format = f

\* ---- C35 ----
\* C35: clear_cache leaves both caches empty and both counters at zero,
\* and the entries of the two caches are never more than the misses
\* counted since the last reset of the counters: a call that counted its
\* miss before a reset stores nothing after it
C35_NoStoreAcrossReset ==
    /\ [][ev'.admin.op = "clear_cache" =>
             /\ search_cache'.items = <<>>
             /\ url_cache'.items = <<>>
             /\ cache_stats' = [hits |-> 0, misses |-> 0]]_vars
    /\ [](TTLLen(search_cache, now) + TTLLen(url_cache, now) <= cache_stats.misses)

\* ---- C36 ----
\* C36: a set_search_preferences that returns an error leaves the
\* configuration, both caches and the counters as they were, so none of
\* the valid arguments given along with the invalid one is applied
C36_ErrorChangesNothing ==
    [][(ev'.admin.op = "set_search_preferences" /\ ev'.admin.status = "error") =>
          UNCHANGED <<CONFIG, search_cache, url_cache, cache_stats>>]_vars

=========================================================================
